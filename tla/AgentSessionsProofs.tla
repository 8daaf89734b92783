------------------------- MODULE AgentSessionsProofs -------------------------
(***************************************************************************)
(* AgentSessions for every set of tokens, agents and calls and every bound.*)
(* Each action of Next preserves IInv (one lemma per action, or per group  *)
(* of actions with the same effect); the safety invariants, two action     *)
(* properties and the implementation of CommandRPC follow.  The last part  *)
(* is about AgentTunnel: its behaviours are behaviours of AgentSessions    *)
(* and of EdgeAgent, and TunnelInv says what the network may hold.         *)
(***************************************************************************)
EXTENDS AgentTunnel, TLAPS

\* No session and no call yet.
LEMMA InitIInv == Init => IInv
  BY NoneAssumption, BoundsAssumption
  DEF Init, IInv, TypeOK, SessionInv, IndexesAgree, NoDoubleClose,
      WaiterReachable, NoLeakedPending, CallInv, QueueInv, Session, Outcomes,
      Refusals

\* What taking the first element of a queue leaves.
LEMMA TailIndex ==
  ASSUME NEW S, NEW q \in Seq(S), q # <<>>, NEW j \in 1 .. Len(Tail(q))
  PROVE  j + 1 \in 1 .. Len(q) /\ Tail(q)[j] = q[j + 1]
  OBVIOUS

\* A handler that moves on without touching its queue.
LEMMA StreamMovesIInv ==
  ASSUME IInv, NEW s \in Session, NEW from, NEW to \in {"loop", "returning"},
         StreamMoves(s, from, to), from # "none", UNCHANGED <<queue, sent>>
  PROVE  IInv'
<1> USE DEF callVars, waiterVars
<1>1. TypeOK'
  BY DEF IInv, TypeOK, StreamMoves
<1>2. SessionInv'
  BY DEF IInv, TypeOK, SessionInv, StreamMoves
<1>3. IndexesAgree'
  BY DEF IInv, IndexesAgree, StreamMoves
<1>4. NoDoubleClose'
  BY DEF IInv, NoDoubleClose, StreamMoves
<1>5. WaiterReachable' /\ NoLeakedPending'
  BY DEF IInv, WaiterReachable, NoLeakedPending, StreamMoves
<1>6. CallInv'
  BY DEF IInv, CallInv, Routed, StreamMoves
<1>7. QueueInv'
  BY DEF IInv, QueueInv, StreamMoves
<1> QED BY <1>1, <1>2, <1>3, <1>4, <1>5, <1>6, <1>7 DEF IInv

\* The handler takes the first command of its queue, whether or not it can
\* then be sent.
LEMMA TakeFromQueueIInv ==
  ASSUME IInv, NEW s \in Session, NEW to \in {"loop", "returning"},
         queue[s] # <<>>, StreamMoves(s, "loop", to),
         queue' = [queue EXCEPT ![s] = Tail(@)],
         sent' \in [Call -> Nat],
         \A d \in Call : sent[d] > 0 => sent'[d] > 0,
         \A d \in Call \ {Head(queue[s])} : sent'[d] = sent[d]
  PROVE  IInv'
<1> USE DEF callVars, waiterVars
<1> DEFINE c == Head(queue[s])
<1>0. /\ queue[s] \in Seq(Call) /\ c \in Call /\ c = queue[s][1]
      /\ Len(queue[s]) > 0
      /\ Tail(queue[s]) \in Seq(Call)
      /\ Len(Tail(queue[s])) = Len(queue[s]) - 1
  BY DEF IInv, TypeOK
<1>c. callSession[c] = s /\ sent[c] = 0 /\ callSession[c] # None
  BY <1>0, NoneAssumption DEF IInv, QueueInv, Session
<1>1. TypeOK'
  BY <1>0 DEF IInv, TypeOK, StreamMoves
<1>2. SessionInv'
  BY <1>0 DEF IInv, TypeOK, SessionInv, StreamMoves
<1>3. IndexesAgree'
  BY DEF IInv, IndexesAgree, StreamMoves
<1>4. NoDoubleClose'
  BY DEF IInv, NoDoubleClose, StreamMoves
<1>5. WaiterReachable' /\ NoLeakedPending'
  BY DEF IInv, WaiterReachable, NoLeakedPending, StreamMoves
<1>6. CallInv'
  BY <1>c DEF IInv, CallInv, Routed, StreamMoves
<1>7. QueueInv'
  <2> SUFFICES ASSUME NEW r \in Session, NEW j \in 1 .. Len(queue'[r])
               PROVE  /\ callSession'[queue'[r][j]] = r
                      /\ sent'[queue'[r][j]] = 0
                      /\ \A k \in 1 .. Len(queue'[r]) :
                           queue'[r][j] = queue'[r][k] => j = k
    BY DEF QueueInv
  <2>1. CASE r = s
    <3>1. queue'[r] = Tail(queue[s])
      BY <2>1 DEF IInv, TypeOK
    <3>2. /\ j \in 1 .. Len(Tail(queue[s]))
          /\ j + 1 \in 1 .. Len(queue[s])
          /\ queue'[r][j] = queue[s][j + 1]
      <4>1. j \in 1 .. Len(Tail(queue[s]))
        BY <3>1
      <4> QED BY <3>1, <4>1, <1>0, TailIndex
    <3>3. queue[s][j + 1] # c
      <4>1. 1 \in 1 .. Len(queue[s]) /\ j + 1 # 1
        BY <1>0
      <4> QED BY <4>1, <3>2, <1>0 DEF IInv, QueueInv
    <3>4. ASSUME NEW k \in 1 .. Len(queue'[r]), queue'[r][j] = queue'[r][k]
          PROVE  j = k
      <4>0. k \in 1 .. Len(Tail(queue[s]))
        BY <3>1
      <4>1. k + 1 \in 1 .. Len(queue[s]) /\ queue'[r][k] = queue[s][k + 1]
        BY <3>1, <4>0, <1>0, TailIndex
      <4>2. j + 1 = k + 1
        BY <3>2, <3>4, <4>1 DEF IInv, QueueInv
      <4>3. j \in Int /\ k \in Int
        OBVIOUS
      <4> QED BY <4>2, <4>3
    <3>5. /\ queue[s][j + 1] \in Call
          /\ callSession[queue[s][j + 1]] = s
          /\ sent[queue[s][j + 1]] = 0
      BY <3>2, <1>0 DEF IInv, QueueInv
    <3> QED BY <2>1, <3>2, <3>3, <3>4, <3>5 DEF StreamMoves
  <2>2. CASE r # s
    <3>1. queue'[r] = queue[r]
      BY <2>2 DEF IInv, TypeOK
    <3>2. /\ queue[r][j] \in Call
          /\ callSession[queue[r][j]] = r
          /\ sent[queue[r][j]] = 0
          /\ \A k \in 1 .. Len(queue[r]) : queue[r][j] = queue[r][k] => j = k
      <4>1. j \in 1 .. Len(queue[r])
        BY <3>1
      <4>2. queue[r] \in Seq(Call)
        BY DEF IInv, TypeOK
      <4>3. queue[r][j] \in Call
        BY <4>1, <4>2
      <4>4. QueueInv
        BY DEF IInv
      <4> QED BY <4>1, <4>3, <4>4, Zenon DEF QueueInv
    <3> QED BY <2>2, <3>1, <3>2, <1>c DEF StreamMoves
  <2> QED BY <2>1, <2>2
<1> QED BY <1>1, <1>2, <1>3, <1>4, <1>5, <1>6, <1>7 DEF IInv

\* A heartbeat moves nothing but the time of the last one.
LEMMA HeartbeatIInv ==
  ASSUME IInv, NEW t, NEW i, MarkHeartbeat(t, i) PROVE IInv'
<1> USE DEF callVars, waiterVars
<1>0. PICK s \in Session, at \in HeartbeatTimes :
        /\ lastHeartbeat' = [lastHeartbeat EXCEPT ![s] = at]
        /\ UNCHANGED <<clock, byToken, byID, created, tok, sid, connectedAt,
                       active, stream, queue, sent, callVars, waiterVars>>
  BY DEF MarkHeartbeat
<1>1. TypeOK'
  <2>1. clock \in Int /\ Skews \subseteq Int
    BY BoundsAssumption DEF IInv, TypeOK
  <2>2. at \in Int
    BY <2>1 DEF HeartbeatTimes
  <2> QED BY <1>0, <2>2 DEF IInv, TypeOK
<1>2. SessionInv'
  BY <1>0 DEF IInv, SessionInv
<1>3. IndexesAgree'
  BY <1>0 DEF IInv, IndexesAgree
<1>4. NoDoubleClose'
  BY <1>0 DEF IInv, NoDoubleClose
<1>5. WaiterReachable' /\ NoLeakedPending'
  BY <1>0 DEF IInv, WaiterReachable, NoLeakedPending
<1>6. CallInv'
  BY <1>0 DEF IInv, CallInv, Routed
<1>7. QueueInv'
  BY <1>0 DEF IInv, QueueInv
<1> QED BY <1>1, <1>2, <1>3, <1>4, <1>5, <1>6, <1>7 DEF IInv

\* A handler that returns closes its own session or nothing.
LEMMA DisconnectIInv ==
  ASSUME IInv, NEW s \in Session, disconnectRegisteredSession(s) PROVE IInv'
<1> USE DEF callVars
<1>0. \/ UNCHANGED <<active, pending, open>>
      \/ /\ active' = active \ {s}
         /\ pending' = [pending EXCEPT ![s] = {}]
         /\ open' = open \ pending[s]
  <2>1. CASE DisconnectTarget(s) = {s}
    <3>1. UNION {pending[r] : r \in {s}} = pending[s]
      OBVIOUS
    <3>2. [r \in Session |-> IF r \in {s} THEN {} ELSE pending[r]]
            = [pending EXCEPT ![s] = {}]
      BY DEF IInv, TypeOK
    <3> QED BY <2>1, <3>1, <3>2
            DEF disconnectRegisteredSession, closeSessionLocked
  <2>2. CASE DisconnectTarget(s) = {}
    <3>1. UNION {pending[r] : r \in {}} = {}
      OBVIOUS
    <3>2. [r \in Session |-> IF r \in {} THEN {} ELSE pending[r]] = pending
      BY DEF IInv, TypeOK
    <3> QED BY <2>2, <3>1, <3>2
            DEF disconnectRegisteredSession, closeSessionLocked
  <2> QED BY <2>1, <2>2 DEF DisconnectTarget
<1>1. TypeOK'
  BY <1>0 DEF IInv, TypeOK, disconnectRegisteredSession
<1>2. SessionInv'
  BY <1>0 DEF IInv, TypeOK, SessionInv, disconnectRegisteredSession
<1>3. IndexesAgree'
  BY <1>0 DEF IInv, IndexesAgree, disconnectRegisteredSession
<1>4. NoDoubleClose'
  BY <1>0 DEF IInv, TypeOK, NoDoubleClose, disconnectRegisteredSession
<1>5. WaiterReachable'
  <2>1. active \subseteq Session
    BY BoundsAssumption DEF IInv, TypeOK, Session
  <2> QED BY <1>0, <2>1
          DEF IInv, TypeOK, CallInv, WaiterReachable,
              disconnectRegisteredSession
<1>5a. \A r \in Session : pending'[r] \subseteq pending[r]
  BY <1>0 DEF IInv, TypeOK
<1>5b. NoLeakedPending'
  <2> SUFFICES ASSUME NEW r \in Session, NEW c \in pending'[r]
               PROVE  r \in active' /\ pc'[c] \in {"waiting", "cancelling"}
    BY DEF NoLeakedPending
  <2>1. r \in active /\ pc[c] \in {"waiting", "cancelling"}
    BY <1>5a DEF IInv, NoLeakedPending
  <2> QED BY <1>0, <2>1 DEF IInv, TypeOK, disconnectRegisteredSession
<1>6. CallInv'
  <2>1. \A c \in Call : Routed(c) => Routed(c)'
    BY DEF Routed, disconnectRegisteredSession
  <2>2. open' \subseteq open
    BY <1>0
  <2> QED BY <1>5a, <2>1, <2>2 DEF IInv, CallInv, disconnectRegisteredSession
<1>7. QueueInv'
  BY <1>0 DEF IInv, QueueInv, disconnectRegisteredSession
<1> QED BY <1>1, <1>2, <1>3, <1>4, <1>5, <1>5b, <1>6, <1>7 DEF IInv

\* A result takes its waiter out of pending and holds it.
LEMMA SubmitIInv ==
  ASSUME IInv, NEW t, NEW i, NEW c \in Call, <<t, i>> \in Agents,
         SubmitResult(t, i, c) PROVE IInv'
<1> USE DEF sessionVars, callVars
<1>0. PICK s \in Session : /\ c \in pending[s]
                           /\ pending' = [pending EXCEPT ![s] = @ \ {c}]
  BY DEF SubmitResult, TakeWaiter
<1>a. i \in SessionID /\ i # None
  BY AgentsAssumption, NoneAssumption
<1>1. TypeOK'
  BY <1>0, <1>a DEF IInv, TypeOK, SubmitResult
<1>2. SessionInv'
  BY <1>0 DEF IInv, SessionInv, SubmitResult
<1>3. IndexesAgree'
  BY <1>0 DEF IInv, IndexesAgree, SubmitResult
<1>4. NoDoubleClose'
  BY <1>0 DEF IInv, TypeOK, NoDoubleClose, SubmitResult
<1>5. WaiterReachable' /\ NoLeakedPending'
  BY <1>0 DEF IInv, TypeOK, WaiterReachable, NoLeakedPending, SubmitResult
<1>b. callSession[c] # None
  BY <1>0, NoneAssumption DEF IInv, CallInv, Session
<1>6. CallInv'
  <2>1. \A d \in Call : Routed(d) => Routed(d)'
    BY DEF Routed, SubmitResult
  <2>2. \A r \in Session : pending'[r] \subseteq pending[r]
    BY <1>0 DEF IInv, TypeOK
  <2>3. /\ \A d \in Call \ {c} : result'[d] = result[d]
        /\ result'[c] = i
    BY DEF IInv, TypeOK, SubmitResult
  <2>4. \A r \in Session : c \notin pending'[r]
    BY <1>0 DEF IInv, TypeOK, CallInv
  <2> QED BY <1>a, <1>b, <2>1, <2>2, <2>3, <2>4 DEF IInv, CallInv, SubmitResult
<1>7. QueueInv'
  BY <1>0 DEF IInv, QueueInv, SubmitResult
<1> QED BY <1>1, <1>2, <1>3, <1>4, <1>5, <1>6, <1>7 DEF IInv

\* Time alone makes no promise untrue.
LEMMA TickIInv == ASSUME IInv, Tick PROVE IInv'
<1> USE DEF sessionVars, callVars, waiterVars
<1>1. TypeOK'
  BY BoundsAssumption DEF IInv, TypeOK, Tick
<1>2. SessionInv'
  BY DEF IInv, SessionInv, Tick
<1>3. IndexesAgree'
  BY DEF IInv, IndexesAgree, Tick
<1>4. NoDoubleClose'
  BY DEF IInv, NoDoubleClose, Tick
<1>5. WaiterReachable' /\ NoLeakedPending'
  BY DEF IInv, WaiterReachable, NoLeakedPending, Tick
<1>6. CallInv'
  BY DEF IInv, CallInv, Routed, Tick
<1>7. QueueInv'
  BY DEF IInv, QueueInv, Tick
<1> QED BY <1>1, <1>2, <1>3, <1>4, <1>5, <1>6, <1>7 DEF IInv

\* The held waiter gets its result outside the mutex.
LEMMA AnswerIInv == ASSUME IInv, NEW c \in Call, AnswerWaiter(c) PROVE IInv'
<1> USE DEF sessionVars, callVars
<1>1. TypeOK'
  BY DEF IInv, TypeOK, AnswerWaiter
<1>2. SessionInv'
  BY DEF IInv, SessionInv, AnswerWaiter
<1>3. IndexesAgree'
  BY DEF IInv, IndexesAgree, AnswerWaiter
<1>4. NoDoubleClose'
  BY DEF IInv, NoDoubleClose, AnswerWaiter
<1>5. WaiterReachable' /\ NoLeakedPending'
  BY DEF IInv, WaiterReachable, NoLeakedPending, NoDoubleClose, AnswerWaiter
<1>6. CallInv'
  BY DEF IInv, CallInv, Routed, AnswerWaiter
<1>7. QueueInv'
  BY DEF IInv, QueueInv, AnswerWaiter
<1> QED BY <1>1, <1>2, <1>3, <1>4, <1>5, <1>6, <1>7 DEF IInv

\* A caller that returns without having been given a session.
LEMMA RefusedIInv ==
  ASSUME IInv, NEW c \in Call, NEW o \in Refusals, pc[c] = "idle",
         Return(c, o),
         UNCHANGED <<clock, sessionVars, queue, sent, callSession, waiterVars>>
  PROVE  IInv'
<1> USE DEF sessionVars, waiterVars
<1>0. callSession[c] = None
  BY DEF IInv, CallInv
<1>1. TypeOK'
  BY DEF IInv, TypeOK, Return, Outcomes
<1>2. SessionInv'
  BY DEF IInv, SessionInv
<1>3. IndexesAgree'
  BY DEF IInv, IndexesAgree
<1>4. NoDoubleClose'
  BY DEF IInv, NoDoubleClose
<1>5. WaiterReachable' /\ NoLeakedPending'
  BY DEF IInv, TypeOK, WaiterReachable, NoLeakedPending, Return
<1>6. CallInv'
  <2>1. \A d \in Call : Routed(d) => Routed(d)'
    BY DEF Routed
  <2>2. \A d \in Call \ {c} : pc'[d] = pc[d] /\ outcome'[d] = outcome[d]
    BY DEF IInv, TypeOK, Return
  <2>3. pc'[c] = "returned" /\ outcome'[c] = o /\ o # "result"
    BY DEF IInv, TypeOK, Return, Refusals
  <2> QED BY <1>0, <2>1, <2>2, <2>3 DEF IInv, CallInv
<1>7. QueueInv'
  BY DEF IInv, QueueInv
<1> QED BY <1>1, <1>2, <1>3, <1>4, <1>5, <1>6, <1>7 DEF IInv

\* A caller that has a session and stops waiting (its command, if still
\* pending, was taken out of pending).
LEMMA ReturnedIInv ==
  ASSUME IInv, NEW c \in Call, NEW o \in {"result"} \cup Failures,
         pc[c] \in {"waiting", "cancelling"}, Return(c, o),
         o = "result" => result[c] # None,
         pending' \in [Session -> SUBSET Call],
         \A s \in Session : pending'[s] = pending[s] \ {c},
         UNCHANGED <<clock, sessionVars, queue, sent, callSession, open, held,
                     result>>
  PROVE  IInv'
<1> USE DEF sessionVars
<1>1. TypeOK'
  BY DEF IInv, TypeOK, Return, Outcomes
<1>2. SessionInv'
  BY DEF IInv, SessionInv
<1>3. IndexesAgree'
  BY DEF IInv, IndexesAgree
<1>4. NoDoubleClose'
  BY DEF IInv, NoDoubleClose
<1>a. /\ \A d \in Call \ {c} : pc'[d] = pc[d] /\ outcome'[d] = outcome[d]
      /\ pc'[c] = "returned" /\ outcome'[c] = o /\ o \notin Refusals
  BY DEF IInv, TypeOK, Return, Refusals, Failures
<1>5. WaiterReachable'
  <2> SUFFICES ASSUME NEW d \in Call, pc'[d] = "waiting", d \in open
               PROVE  \/ d \in held
                      \/ callSession[d] \in active /\ d \in pending'[callSession[d]]
    BY DEF WaiterReachable
  <2>1. d # c /\ pc[d] = "waiting"
    BY <1>a
  <2>2. \/ d \in held
        \/ callSession[d] \in active /\ d \in pending[callSession[d]]
    BY <2>1 DEF IInv, WaiterReachable
  <2>3. active \subseteq Session
    BY BoundsAssumption DEF IInv, TypeOK, Session
  <2> QED BY <2>1, <2>2, <2>3
<1>6. NoLeakedPending'
  BY <1>a DEF IInv, TypeOK, NoLeakedPending
<1>7. CallInv'
  <2>1. \A d \in Call : Routed(d) => Routed(d)'
    BY DEF Routed
  <2> QED BY <1>a, <2>1 DEF IInv, CallInv
<1>8. QueueInv'
  BY DEF IInv, QueueInv
<1> QED BY <1>1, <1>2, <1>3, <1>4, <1>5, <1>6, <1>7, <1>8 DEF IInv

\* A caller that gives up still has its waiter to forget.
LEMMA ContextDoneIInv ==
  ASSUME IInv, NEW c \in Call, ContextDone(c) PROVE IInv'
<1> USE DEF sessionVars, waiterVars
<1>1. TypeOK'
  BY DEF IInv, TypeOK, ContextDone
<1>2. SessionInv'
  BY DEF IInv, SessionInv, ContextDone
<1>3. IndexesAgree'
  BY DEF IInv, IndexesAgree, ContextDone
<1>4. NoDoubleClose'
  BY DEF IInv, NoDoubleClose, ContextDone
<1>5. WaiterReachable' /\ NoLeakedPending'
  BY DEF IInv, TypeOK, WaiterReachable, NoLeakedPending, ContextDone
<1>6. CallInv'
  <2>1. \A d \in Call : Routed(d) => Routed(d)'
    BY DEF Routed, ContextDone
  <2> QED BY <2>1 DEF IInv, TypeOK, CallInv, ContextDone
<1>7. QueueInv'
  BY DEF IInv, QueueInv, ContextDone
<1> QED BY <1>1, <1>2, <1>3, <1>4, <1>5, <1>6, <1>7 DEF IInv

\* A command enters pending and queue of one active session.
LEMMA IssueIInv ==
  ASSUME IInv, NEW c \in Call, NEW s \in Session, Issue(c, s) PROVE IInv'
<1> USE DEF sessionVars
<1>0. /\ s \in active /\ s \in 1 .. created
      /\ s # None
      /\ callSession[c] = None
      /\ c \notin open /\ sent[c] = 0 /\ c \notin held /\ result[c] = None
  BY NoneAssumption
  DEF IInv, TypeOK, CallInv, Issue, SessionFor, isActiveLocked, TenantSessions,
      activeTenantSessionLocked, activeTokenSessionLocked, Session
<1>a. \A r \in Session : c \notin pending[r]
  BY <1>0 DEF IInv, NoDoubleClose
<1>b. \A r \in Session : \A j \in 1 .. Len(queue[r]) : queue[r][j] # c
  BY <1>0, NoneAssumption DEF IInv, QueueInv, Session
<1>1. TypeOK'
  BY <1>0 DEF IInv, TypeOK, Issue
<1>2. SessionInv'
  BY <1>0 DEF IInv, TypeOK, SessionInv, Issue
<1>3. IndexesAgree'
  BY DEF IInv, IndexesAgree, Issue
<1>4. NoDoubleClose'
  BY <1>0, <1>a DEF IInv, TypeOK, NoDoubleClose, Issue
<1>5. WaiterReachable'
  BY <1>0 DEF IInv, TypeOK, CallInv, WaiterReachable, Issue
<1>6. NoLeakedPending'
  BY <1>0 DEF IInv, TypeOK, NoLeakedPending, Issue
<1>7. CallInv'
  <2>1. \A d \in Call \ {c} : /\ callSession'[d] = callSession[d]
                              /\ pc'[d] = pc[d]
                              /\ Routed(d) => Routed(d)'
    BY DEF IInv, TypeOK, Issue, Routed
  <2>2. callSession'[c] = s /\ pc'[c] = "waiting"
    BY DEF IInv, TypeOK, Issue
  <2>3. Routed(c)'
    <3>1. CASE Kind[c] = PingKind
      BY <1>0, <2>2, <3>1, CallAssumption
      DEF IInv, IndexesAgree, Issue, SessionFor, Routed, PingKind, TenantKinds,
          ConfigureKind
    <3>2. CASE Kind[c] \in TenantKinds
      BY <1>0, <2>2, <3>2
      DEF Issue, SessionFor, Routed, PingKind, TenantKinds, ConfigureKind,
          activeTenantSessionLocked, TenantSessions
    <3>3. CASE Kind[c] = ConfigureKind
      BY <1>0, <2>2, <3>3, CallAssumption
      DEF IInv, IndexesAgree, Issue, SessionFor, Routed, PingKind, TenantKinds,
          ConfigureKind, activeTokenSessionLocked
    <3> QED BY <3>1, <3>2, <3>3, CallAssumption
  <2>4. outcome'[c] \notin Refusals /\ outcome'[c] # "result"
    BY NoneAssumption DEF IInv, CallInv, Issue, Outcomes
  <2>5. \A r \in Session : pending'[r] \subseteq pending[r] \cup {c}
    BY DEF IInv, TypeOK, Issue
  <2>6. \A r \in Session \ {s} : pending'[r] = pending[r]
    BY DEF IInv, TypeOK, Issue
  <2> QED BY <1>0, <1>a, <2>1, <2>2, <2>3, <2>4, <2>5, <2>6 DEF IInv, CallInv, Issue
<1>8. QueueInv'
  <2> DEFINE q == Append(queue[s], c)
  <2>1. /\ queue[s] \in Seq(Call)
        /\ Len(q) = Len(queue[s]) + 1
        /\ q[Len(q)] = c
        /\ \A j \in 1 .. Len(queue[s]) : q[j] = queue[s][j]
    BY DEF IInv, TypeOK
  <2>2. queue'[s] = q /\ \A r \in Session \ {s} : queue'[r] = queue[r]
    BY DEF IInv, TypeOK, Issue
  <2>3. /\ callSession'[c] = s /\ sent' = sent
        /\ \A d \in Call \ {c} : callSession'[d] = callSession[d]
    BY DEF IInv, TypeOK, Issue
  <2>4. ASSUME NEW r \in Session, NEW j \in 1 .. Len(queue'[r])
        PROVE  /\ callSession'[queue'[r][j]] = r
               /\ sent'[queue'[r][j]] = 0
               /\ \A k \in 1 .. Len(queue'[r]) :
                    queue'[r][j] = queue'[r][k] => j = k
    <3>1. CASE r # s
      BY <1>b, <2>2, <2>3, <3>1 DEF IInv, TypeOK, QueueInv
    <3>2. CASE r = s
      <4>1. \A k \in 1 .. Len(queue'[r]) :
              \/ k \in 1 .. Len(queue[s]) /\ queue'[r][k] = queue[s][k]
              \/ k = Len(q) /\ queue'[r][k] = c
        BY <2>1, <2>2, <3>2
      <4>2. \A k \in 1 .. Len(queue[s]) : queue[s][k] # c /\ queue[s][k] \in Call
        BY <1>b, <2>1
      <4> QED BY <1>0, <2>3, <3>2, <4>1, <4>2 DEF IInv, QueueInv
    <3> QED BY <3>1, <3>2
  <2> QED BY <2>4 DEF QueueInv
<1> QED BY <1>1, <1>2, <1>3, <1>4, <1>5, <1>6, <1>7, <1>8 DEF IInv

\* Registration: the token's old session is closed and leaves both maps, the
\* new one enters them.
LEMMA RegisterIInv ==
  ASSUME IInv, NEW t, NEW i, <<t, i>> \in Agents, RegisterSession(t, i)
  PROVE  IInv'
<1> USE DEF callVars
<1> DEFINE s == created + 1
           old == {byToken[t]} \ {None}
<1>0. /\ t \in Token /\ i \in SessionID /\ i # None
      /\ s \in Session /\ s # None
      /\ s \notin 1 .. created
      /\ old \subseteq 1 .. created
      /\ old \subseteq Session
  <2>1. t \in Token /\ i \in SessionID /\ i # None
    BY AgentsAssumption, NoneAssumption
  <2>2. s \in Session /\ s # None /\ s \notin 1 .. created
    BY BoundsAssumption, NoneAssumption DEF IInv, TypeOK, RegisterSession, Session
  <2>3. old \subseteq 1 .. created /\ old \subseteq Session
    BY <2>1, BoundsAssumption DEF IInv, TypeOK, Session
  <2> QED BY <2>1, <2>2, <2>3
<1>1. PICK now \in 0 .. clock :
        /\ created' = s
        /\ tok' = [tok EXCEPT ![s] = t]
        /\ sid' = [sid EXCEPT ![s] = i]
        /\ connectedAt' = [connectedAt EXCEPT ![s] = now]
        /\ lastHeartbeat' = [lastHeartbeat EXCEPT ![s] = now]
        /\ stream' = [stream EXCEPT ![s] = "ack"]
        /\ closeSessionLocked(old, {s})
        /\ byToken' = [byToken EXCEPT ![t] = s]
        /\ byID' = [j \in SessionID |->
                      IF j = i THEN s
                      ELSE IF \E e \in old : sid[e] = j THEN None
                      ELSE byID[j]]
  BY DEF RegisterSession, IndexNewSession
<1>2. UNCHANGED <<clock, queue, sent, callVars, held, result>>
  BY DEF RegisterSession
<1>3. /\ active' = (active \ old) \cup {s}
      /\ pending' \in [Session -> SUBSET Call]
      /\ \A r \in Session : pending'[r] = IF r \in old THEN {} ELSE pending[r]
      /\ open' = open \ UNION {pending[e] : e \in old}
  BY <1>1 DEF closeSessionLocked, IInv, TypeOK
<1>4. \A r \in Session \ {s} : tok'[r] = tok[r] /\ sid'[r] = sid[r]
  BY <1>1 DEF IInv, TypeOK
<1>5. tok'[s] = t /\ sid'[s] = i /\ byID'[i] = s /\ byToken'[t] = s
  BY <1>0, <1>1 DEF IInv, TypeOK
<1>6. /\ \A e \in old : e = byToken[t] /\ tok[e] = t /\ byID[sid[e]] = e
      /\ byToken[t] # None => byToken[t] \in old
      /\ \A e \in old : sid[e] \in SessionID
  <2>1. \A e \in old : <<tok[e], sid[e]>> \in Agents
    BY <1>0 DEF IInv, SessionInv, TypeOK, Session
  <2> QED BY <1>0, <2>1, AgentsAssumption DEF IInv, IndexesAgree
<1>7. TypeOK'
  <2>1. 1 .. created \subseteq 1 .. created'
    BY <1>1, BoundsAssumption DEF IInv, TypeOK
  <2>2. s \in 1 .. created' /\ created' \in 0 .. MaxSessions
    BY <1>0, <1>1, BoundsAssumption DEF IInv, TypeOK, Session
  <2>3. byToken' \in [Token -> 1 .. created' \cup {None}]
    BY <1>1, <2>1, <2>2 DEF IInv, TypeOK
  <2>4. byID' \in [SessionID -> 1 .. created' \cup {None}]
    BY <1>1, <2>1, <2>2 DEF IInv, TypeOK
  <2>5. callSession' \in [Call -> 1 .. created' \cup {None}]
    BY <1>2, <2>1 DEF IInv, TypeOK
  <2>6. active' \subseteq 1 .. created' /\ open' \subseteq Call
    BY <1>3, <2>1, <2>2 DEF IInv, TypeOK
  <2>7. connectedAt' \in [Session -> Nat] /\ lastHeartbeat' \in [Session -> Int]
    BY <1>0, <1>1 DEF IInv, TypeOK
  <2> QED BY <1>0, <1>1, <1>2, <1>3, <2>2, <2>3, <2>4, <2>5, <2>6, <2>7
          DEF IInv, TypeOK
<1>8. SessionInv'
  <2> SUFFICES ASSUME NEW r \in Session
               PROVE  /\ r <= created' => /\ <<tok'[r], sid'[r]>> \in Agents
                                          /\ stream'[r] # "none"
                      /\ r > created' => stream'[r] = "none" /\ queue'[r] = <<>>
    BY DEF SessionInv
  <2>1. CASE r = s
    BY <1>0, <1>1, <1>5, <2>1 DEF IInv, TypeOK, Session
  <2>2. CASE r # s
    <3>1. (r <= created' <=> r <= created) /\ stream'[r] = stream[r]
      BY <1>1, <2>2, BoundsAssumption DEF IInv, TypeOK, Session
    <3>2. r > created' => r > created
      BY <1>1 DEF IInv, TypeOK, Session
    <3> QED BY <1>2, <1>4, <2>2, <3>1, <3>2 DEF IInv, SessionInv
  <2> QED BY <2>1, <2>2
<1>8a. 1 .. created \subseteq Session
  BY BoundsAssumption DEF IInv, TypeOK, Session
<1>9. IndexesAgree'
  <2>1. ASSUME NEW u \in Token, byToken'[u] # None
        PROVE  tok'[byToken'[u]] = u /\ byID'[sid'[byToken'[u]]] = byToken'[u]
    <3>1. CASE u = t
      BY <1>5, <3>1
    <3>2. CASE u # t
      <4> DEFINE r == byToken[u]
      <4>1. byToken'[u] = r /\ r # None
        BY <1>1, <2>1, <3>2 DEF IInv, TypeOK
      <4>2. r \in 1 .. created /\ r \in Session /\ r # s
        <5>1. r \in 1 .. created
          BY <4>1 DEF IInv, TypeOK
        <5> QED BY <1>0, <5>1, <1>8a
      <4>3. tok[r] = u /\ byID[sid[r]] = r /\ <<u, sid[r]>> \in Agents
        BY <4>1, <4>2 DEF IInv, IndexesAgree, SessionInv
      <4>4. sid[r] # i /\ sid[r] \in SessionID
        BY <3>2, <4>3, AgentsAssumption
      <4>5. ~ \E e \in old : sid[e] = sid[r]
        BY <1>6, <3>2, <4>3
      <4>6. byID'[sid[r]] = r
        BY <1>1, <4>3, <4>4, <4>5
      <4> QED BY <1>4, <4>1, <4>2, <4>3, <4>6
    <3> QED BY <3>1, <3>2
  <2>2. ASSUME NEW j \in SessionID, byID'[j] # None
        PROVE  sid'[byID'[j]] = j /\ byToken'[tok'[byID'[j]]] = byID'[j]
    <3>1. CASE j = i
      BY <1>5, <3>1
    <3>2. CASE j # i
      <4> DEFINE r == byID[j]
      <4>1. byID'[j] = r /\ r # None /\ ~ \E e \in old : sid[e] = j
        BY <1>1, <2>2, <3>2
      <4>2. r \in 1 .. created /\ r \in Session /\ r # s
        <5>1. r \in 1 .. created
          BY <4>1 DEF IInv, TypeOK
        <5> QED BY <1>0, <5>1, <1>8a
      <4>3. sid[r] = j /\ byToken[tok[r]] = r /\ <<tok[r], sid[r]>> \in Agents
        BY <4>1, <4>2 DEF IInv, IndexesAgree, SessionInv
      <4>4. tok[r] # t /\ tok[r] \in Token
        BY <1>6, <4>1, <4>3, AgentsAssumption
      <4>5. byToken'[tok[r]] = r
        BY <1>1, <4>3, <4>4 DEF IInv, TypeOK
      <4> QED BY <1>4, <4>1, <4>2, <4>3, <4>5
    <3> QED BY <3>1, <3>2
  <2>3. ASSUME NEW r \in active' PROVE byID'[sid'[r]] = r
    <3>1. CASE r = s
      BY <1>5, <3>1
    <3>2. CASE r # s
      <4>1. r \in active /\ r \notin old
        BY <1>3, <3>2
      <4>2. r \in 1 .. created /\ r \in Session
        BY <4>1, <1>8a DEF IInv, TypeOK
      <4>3. byID[sid[r]] = r /\ <<tok[r], sid[r]>> \in Agents
        BY <4>1, <4>2 DEF IInv, IndexesAgree, SessionInv
      <4>4. sid[r] \in SessionID /\ tok[r] \in Token /\ r # None
        BY <4>2, <4>3, AgentsAssumption, NoneAssumption
      <4>5. byToken[tok[r]] = r
        BY <4>3, <4>4 DEF IInv, IndexesAgree
      <4>6. tok[r] # t
        BY <1>6, <4>1, <4>4, <4>5
      <4>7. byToken'[tok[r]] = r
        BY <1>1, <4>4, <4>5, <4>6 DEF IInv, TypeOK
      <4>8. tok'[byToken'[tok[r]]] = tok[r] /\ byID'[sid'[byToken'[tok[r]]]] = r
        BY <2>1, <4>4, <4>7
      <4> QED BY <4>7, <4>8
    <3> QED BY <3>1, <3>2
  <2> QED BY <2>1, <2>2, <2>3 DEF IndexesAgree
<1>10. NoDoubleClose'
  BY <1>0, <1>2, <1>3 DEF IInv, NoDoubleClose
<1>11. WaiterReachable'
  <2> SUFFICES ASSUME NEW c \in Call, pc[c] = "waiting", c \in open'
               PROVE  \/ c \in held
                      \/ /\ callSession[c] \in active'
                         /\ c \in pending'[callSession[c]]
    BY <1>2 DEF WaiterReachable
  <2>1. \/ c \in held
        \/ callSession[c] \in active /\ c \in pending[callSession[c]]
    BY <1>3 DEF IInv, WaiterReachable
  <2>2. CASE callSession[c] \in active /\ c \in pending[callSession[c]]
    <3>1. callSession[c] \notin old
      BY <1>3, <2>2
    <3>2. callSession[c] \in Session
      BY <2>2, <1>8a DEF IInv, TypeOK
    <3> QED BY <1>3, <2>2, <3>1, <3>2
  <2> QED BY <2>1, <2>2
<1>12. NoLeakedPending'
  BY <1>0, <1>2, <1>3 DEF IInv, TypeOK, NoLeakedPending
<1>13. CallInv'
  <2>1. \A c \in Call : callSession[c] # None =>
          /\ callSession[c] \in Session \ {s}
          /\ tok'[callSession[c]] = tok[callSession[c]]
          /\ sid'[callSession[c]] = sid[callSession[c]]
    <3> SUFFICES ASSUME NEW c \in Call, callSession[c] # None
                 PROVE  callSession[c] \in Session \ {s}
      BY <1>4
    <3>1. callSession[c] \in 1 .. created
      BY DEF IInv, TypeOK
    <3> QED BY <1>0, <1>8a, <3>1
  <2>2. \A c \in Call : callSession[c] # None /\ Routed(c) => Routed(c)'
    BY <1>2, <2>1 DEF Routed
  <2>3. \A r \in Session : pending'[r] \subseteq pending[r]
    BY <1>3
  <2>4. open' \subseteq open
    BY <1>3
  <2> QED BY <1>2, <2>1, <2>2, <2>3, <2>4 DEF IInv, CallInv
<1>14. QueueInv'
  BY <1>2 DEF IInv, QueueInv
<1> QED BY <1>7, <1>8, <1>9, <1>10, <1>11, <1>12, <1>13, <1>14 DEF IInv

\* Every step of a caller.
LEMMA CallerIInv ==
  ASSUME IInv, NEW c \in Call, CallerStep(c) PROVE IInv'
<1>a. /\ pending \in [Session -> SUBSET Call]
      /\ callSession[c] # None => callSession[c] \in Session
  BY BoundsAssumption DEF IInv, TypeOK, Session
<1>1. ASSUME NEW s \in Session, Issue(c, s) PROVE IInv'
  BY <1>1, IssueIInv
<1>2. ASSUME NEW s \in Session, IssueRejected(c, s) PROVE IInv'
  BY <1>2, RefusedIInv DEF IssueRejected, Refusals
<1>3. CASE IssueWithoutSession(c)
  <2>1. PICK o \in Refusals : Return(c, o)
    BY <1>3 DEF IssueWithoutSession, Refusals
  <2> QED BY <1>3, <2>1, RefusedIInv DEF IssueWithoutSession
<1>4. CASE ReceiveResult(c)
  <2>1. \A s \in Session : c \notin pending[s]
    BY <1>4 DEF ReceiveResult, IInv, CallInv
  <2> QED BY <1>4, <1>a, <2>1, ReturnedIInv DEF ReceiveResult, waiterVars
<1>5. CASE ReceiveClosed(c)
  <2>1. \A s \in Session : c \notin pending[s]
    BY <1>5 DEF ReceiveClosed, IInv, NoDoubleClose
  <2> QED BY <1>5, <1>a, <2>1, ReturnedIInv
          DEF ReceiveClosed, waiterVars, Failures
<1>6. CASE ContextDone(c)
  BY <1>6, ContextDoneIInv
<1>7. CASE CancelCall(c)
  <2> DEFINE s == callSession[c]
  <2>1. s # None /\ s \in Session
    BY <1>7, <1>a DEF CancelCall, IInv, CallInv
  <2>2. \A r \in Session \ {s} : c \notin pending[r]
    BY DEF IInv, CallInv
  <2>3. byID[sid[s]] # s => c \notin pending[s]
    BY <2>1 DEF IInv, IndexesAgree, NoLeakedPending
  <2>4. /\ pending' \in [Session -> SUBSET Call]
        /\ \A r \in Session : pending'[r] = pending[r] \ {c}
    BY <1>7, <1>a, <2>1, <2>2, <2>3 DEF CancelCall, ForgetCommand
  <2> QED BY <1>7, <2>4, ReturnedIInv DEF CancelCall, Failures
<1> QED BY <1>1, <1>2, <1>3, <1>4, <1>5, <1>6, <1>7 DEF CallerStep

\* Every step of a stream handler.
LEMMA StreamIInv ==
  ASSUME IInv, NEW s \in Session, StreamStep(s) PROVE IInv'
<1>1. CASE StreamAck(s)
  BY <1>1, StreamMovesIInv DEF StreamAck
<1>2. CASE StreamAckFails(s)
  BY <1>2, StreamMovesIInv DEF StreamAckFails
<1>3. CASE StreamSend(s)
  <2>1. Head(queue[s]) \in Call
    BY <1>3 DEF StreamSend, IInv, TypeOK
  <2>2. /\ sent' \in [Call -> Nat]
        /\ \A d \in Call : sent[d] > 0 => sent'[d] > 0
        /\ \A d \in Call \ {Head(queue[s])} : sent'[d] = sent[d]
    BY <1>3, <2>1 DEF StreamSend, IInv, TypeOK
  <2> QED BY <1>3, <2>2, TakeFromQueueIInv DEF StreamSend
<1>4. CASE StreamSendFails(s)
  <2>1. sent' \in [Call -> Nat] /\ sent' = sent
    BY <1>4 DEF StreamSendFails, IInv, TypeOK
  <2> QED BY <1>4, <2>1, TakeFromQueueIInv DEF StreamSendFails
<1>5. CASE StreamContextDone(s)
  BY <1>5, StreamMovesIInv DEF StreamContextDone
<1>6. CASE StreamSessionDone(s)
  BY <1>6, StreamMovesIInv DEF StreamSessionDone
<1>7. CASE disconnectRegisteredSession(s)
  BY <1>7, DisconnectIInv
<1> QED BY <1>1, <1>2, <1>3, <1>4, <1>5, <1>6, <1>7 DEF StreamStep

\* Every request of an agent.
LEMMA AgentIInv ==
  ASSUME IInv, NEW a \in Agents, AgentStep(a) PROVE IInv'
<1>0. a = <<a[1], a[2]>> /\ <<a[1], a[2]>> \in Agents
  BY AgentsAssumption
<1>1. CASE RegisterSession(a[1], a[2])
  BY <1>0, <1>1, RegisterIInv
<1>2. CASE MarkHeartbeat(a[1], a[2])
  BY <1>2, HeartbeatIInv
<1>3. ASSUME NEW c \in Call, SubmitResult(a[1], a[2], c) PROVE IInv'
  BY <1>0, <1>3, SubmitIInv
<1> QED BY <1>1, <1>2, <1>3 DEF AgentStep

\* A step that changes nothing.
LEMMA StutterIInv == ASSUME IInv, UNCHANGED vars PROVE IInv'
<1> USE DEF vars, sessionVars, callVars, waiterVars
<1>1. TypeOK' /\ SessionInv' /\ IndexesAgree' /\ QueueInv'
  BY DEF IInv, TypeOK, SessionInv, IndexesAgree, QueueInv
<1>2. NoDoubleClose' /\ WaiterReachable' /\ NoLeakedPending'
  BY DEF IInv, NoDoubleClose, WaiterReachable, NoLeakedPending
<1>3. CallInv'
  BY DEF IInv, CallInv, Routed
<1> QED BY <1>1, <1>2, <1>3 DEF IInv

\* Every step keeps the inductive invariant.
LEMMA NextIInv == IInv /\ [Next]_vars => IInv'
<1> SUFFICES ASSUME IInv, [Next]_vars PROVE IInv'
  OBVIOUS
<1>1. ASSUME NEW s \in Session, StreamStep(s) PROVE IInv'
  BY <1>1, StreamIInv
<1>2. ASSUME NEW a \in Agents, AgentStep(a) PROVE IInv'
  BY <1>2, AgentIInv
<1>3. ASSUME NEW c \in Call, CallerStep(c) PROVE IInv'
  BY <1>3, CallerIInv
<1>4. ASSUME NEW c \in Call, AnswerWaiter(c) PROVE IInv'
  BY <1>4, AnswerIInv
<1>5. CASE Tick
  BY <1>5, TickIInv
<1>6. CASE UNCHANGED vars
  BY <1>6, StutterIInv
<1> QED BY <1>1, <1>2, <1>3, <1>4, <1>5, <1>6 DEF Next

\* The inductive invariant holds of every behaviour of the manager.
THEOREM Invariance == Spec => []IInv
  BY InitIInv, NextIInv, PTL DEF Spec

-----------------------------------------------------------------------------
\* Type correctness of the session manager.
THEOREM TypeCorrect == Spec => []TypeOK
<1>1. IInv => TypeOK
  BY DEF IInv
<1> QED BY <1>1, Invariance, PTL

\* byToken and byID agree in every state of every instance: the lookups that
\* CancelCall and disconnectRegisteredSession make in byID alone are enough.
THEOREM MapsAgree == Spec => []IndexesAgree
<1>1. IInv => IndexesAgree
  BY DEF IInv
<1> QED BY <1>1, Invariance, PTL

\* No waiter channel is closed twice or sent on after it was closed: the
\* deliveries Submit*Result make outside the mutex cannot panic.
THEOREM NoChannelPanic == Spec => []NoDoubleClose
<1>1. IInv => NoDoubleClose
  BY DEF IInv
<1> QED BY <1>1, Invariance, PTL

\* No caller is left waiting on a channel nobody will close or answer.
THEOREM NoLostCaller == Spec => []WaiterReachable
<1>1. IInv => WaiterReachable
  BY DEF IInv
<1> QED BY <1>1, Invariance, PTL

\* A call that has returned leaves nothing behind in a pending map.
THEOREM NoPendingLeak == Spec => []NoLeakedPending
<1>1. IInv => NoLeakedPending
  BY DEF IInv
<1> QED BY <1>1, Invariance, PTL

\* A result comes from an agent of the tenant the caller asked for.
THEOREM TenantIsolation == Spec => []AnsweredByOwnTenant
<1>1. IInv => AnsweredByOwnTenant
  <2> SUFFICES ASSUME IInv, NEW c \in Call, outcome[c] = "result"
               PROVE  \E a \in Agents : /\ a[2] = result[c]
                                        /\ TenantOf[a[1]] \in TargetTenant(c)
    BY DEF AnsweredByOwnTenant
  <2> DEFINE s == callSession[c]
             a == <<tok[s], sid[s]>>
  <2>1. result[c] # None /\ s # None /\ result[c] = sid[s] /\ Routed(c)
    BY DEF IInv, CallInv
  <2>2. a \in Agents /\ a[1] = tok[s] /\ a[2] = sid[s]
    <3>1. s \in 1 .. created
      BY <2>1 DEF IInv, TypeOK
    <3> QED BY <3>1, BoundsAssumption DEF IInv, TypeOK, SessionInv, Session
  <2>3. TenantOf[a[1]] \in TargetTenant(c)
    <3>1. CASE Kind[c] = PingKind
      <4>1. a \in {b \in Agents : b[2] = Dest[c]}
        BY <2>1, <2>2, <3>1
        DEF Routed, PingKind, TenantKinds, ConfigureKind
      <4>2. TargetTenant(c)
              = {TenantOf[b[1]] : b \in {d \in Agents : d[2] = Dest[c]}}
        BY <3>1 DEF TargetTenant, PingKind, TenantKinds, ConfigureKind
      <4> QED BY <4>1, <4>2
    <3>2. CASE Kind[c] \in TenantKinds
      BY <2>1, <2>2, <3>2
      DEF Routed, TargetTenant, PingKind, TenantKinds, ConfigureKind
    <3>3. CASE Kind[c] = ConfigureKind
      BY <2>1, <2>2, <3>3
      DEF Routed, TargetTenant, PingKind, TenantKinds, ConfigureKind
    <3> QED BY <3>1, <3>2, <3>3, CallAssumption
  <2> QED BY <2>1, <2>2, <2>3
<1> QED BY <1>1, Invariance, PTL
-----------------------------------------------------------------------------
\* A session goes from active to closed only when its own handler returns or
\* when its token registers a newer one.
THEOREM OwnStreamOrSuccessor == Spec => ClosedOnlyByOwnerOrSuccessor
<1> DEFINE P == \A s \in active \ active' :
                  \/ stream[s] = "returning" /\ stream'[s] = "gone"
                  \/ byToken'[tok[s]] = created' /\ created' > s
<1>1. IInv /\ [Next]_vars => [P]_vars
  <2> SUFFICES ASSUME IInv, Next, NEW s \in active, s \notin active'
               PROVE  \/ stream[s] = "returning" /\ stream'[s] = "gone"
                      \/ byToken'[tok[s]] = created' /\ created' > s
    OBVIOUS
  <2>0. s \in 1 .. created /\ s \in Session
    BY BoundsAssumption DEF IInv, TypeOK, Session
  <2>1. ASSUME NEW r \in Session, StreamStep(r)
        PROVE  stream[s] = "returning" /\ stream'[s] = "gone"
    <3>1. disconnectRegisteredSession(r)
      BY <2>1 DEF StreamStep, StreamAck, StreamAckFails, StreamSend,
                  StreamSendFails, StreamContextDone, StreamSessionDone,
                  StreamMoves
    <3>2. active' \in {active, active \ {r}}
      BY <3>1
      DEF disconnectRegisteredSession, closeSessionLocked, DisconnectTarget
    <3> QED BY <3>1, <3>2, <2>0 DEF disconnectRegisteredSession, IInv, TypeOK
  <2>2. ASSUME NEW a \in Agents, AgentStep(a)
        PROVE  byToken'[tok[s]] = created' /\ created' > s
    <3>1. RegisterSession(a[1], a[2])
      BY <2>2 DEF AgentStep, MarkHeartbeat, SubmitResult, sessionVars
    <3>2. /\ active \ {byToken[a[1]]} \subseteq active'
          /\ created' = created + 1
          /\ byToken' = [byToken EXCEPT ![a[1]] = created + 1]
      BY <3>1 DEF RegisterSession, closeSessionLocked
    <3>3. byToken[a[1]] = s /\ a[1] \in Token
      BY <3>2, AgentsAssumption
    <3>4. tok[s] = a[1]
      BY <2>0, <3>3, NoneAssumption DEF IInv, IndexesAgree
    <3> QED BY <2>0, <3>2, <3>3, <3>4 DEF IInv, TypeOK
  <2>3. ASSUME NEW c \in Call, CallerStep(c) \/ AnswerWaiter(c) PROVE FALSE
    BY <2>3 DEF CallerStep, Issue, IssueRejected, IssueWithoutSession,
                ReceiveResult, ReceiveClosed, ContextDone, CancelCall,
                AnswerWaiter, sessionVars
  <2>4. CASE Tick
    BY <2>4 DEF Tick, sessionVars
  <2> QED BY <2>1, <2>2, <2>3, <2>4 DEF Next
<1> QED BY <1>1, Invariance, PTL DEF Spec, ClosedOnlyByOwnerOrSuccessor

\* Time only makes a session stale; only a registration, of another session,
\* makes one active.
THEOREM StaleStaysStale == Spec => NoRevival
<1> DEFINE P == \A s \in 1 .. created : ~isActiveLocked(s) => ~isActiveLocked(s)'
<1>1. IInv /\ [Next]_vars => [P]_vars
  <2> SUFFICES ASSUME IInv, Next, NEW s \in 1 .. created, ~isActiveLocked(s)
               PROVE  ~isActiveLocked(s)'
    OBVIOUS
  <2>0. s \in Session /\ created + 1 # s
    BY BoundsAssumption DEF IInv, TypeOK, Session
  <2>1. CASE UNCHANGED <<clock, lastHeartbeat>> /\ active' \subseteq active
    BY <2>1 DEF isActiveLocked
  <2>2. ASSUME NEW r \in Session, StreamStep(r)
        PROVE  UNCHANGED <<clock, lastHeartbeat>> /\ active' \subseteq active
    BY <2>2 DEF StreamStep, StreamAck, StreamAckFails, StreamSend,
                StreamSendFails, StreamContextDone, StreamSessionDone,
                StreamMoves, disconnectRegisteredSession, closeSessionLocked
  <2>3. ASSUME NEW c \in Call, CallerStep(c) \/ AnswerWaiter(c)
        PROVE  UNCHANGED <<clock, lastHeartbeat>> /\ active' \subseteq active
    BY <2>3 DEF CallerStep, Issue, IssueRejected, IssueWithoutSession,
                ReceiveResult, ReceiveClosed, ContextDone, CancelCall,
                AnswerWaiter, sessionVars
  <2>4. CASE Tick
    <3>1. clock' = clock + 1 /\ UNCHANGED <<active, lastHeartbeat>>
      BY <2>4 DEF Tick, sessionVars
    <3>2. clock \in Int /\ StaleAfter \in Int /\ lastHeartbeat[s] \in Int
      BY <2>0, BoundsAssumption DEF IInv, TypeOK
    <3> QED BY <3>1, <3>2 DEF isActiveLocked
  <2>5. ASSUME NEW a \in Agents, RegisterSession(a[1], a[2])
        PROVE  ~isActiveLocked(s)'
    <3>1. PICK now :
            /\ lastHeartbeat' = [lastHeartbeat EXCEPT ![created + 1] = now]
            /\ active' \subseteq active \cup {created + 1}
            /\ clock' = clock
      BY <2>5 DEF RegisterSession, closeSessionLocked
    <3>2. lastHeartbeat'[s] = lastHeartbeat[s]
      BY <2>0, <3>1 DEF IInv, TypeOK
    <3> QED BY <2>0, <3>1, <3>2 DEF isActiveLocked
  <2>6. ASSUME NEW a \in Agents, MarkHeartbeat(a[1], a[2])
        PROVE  ~isActiveLocked(s)'
    <3>1. PICK r \in Session, at \in HeartbeatTimes :
            /\ isActiveLocked(r)
            /\ lastHeartbeat' = [lastHeartbeat EXCEPT ![r] = at]
            /\ UNCHANGED <<clock, active>>
      BY <2>6 DEF MarkHeartbeat, sessionLocked
    <3>2. r # s
      BY <3>1
    <3>3. lastHeartbeat'[s] = lastHeartbeat[s]
      BY <2>0, <3>1, <3>2 DEF IInv, TypeOK
    <3> QED BY <3>1, <3>3 DEF isActiveLocked
  <2>7. ASSUME NEW a \in Agents, NEW c \in Call, SubmitResult(a[1], a[2], c)
        PROVE  UNCHANGED <<clock, lastHeartbeat>> /\ active' \subseteq active
    BY <2>7 DEF SubmitResult, sessionVars
  <2> QED BY <2>1, <2>2, <2>3, <2>4, <2>5, <2>6, <2>7 DEF Next, AgentStep
<1> QED BY <1>1, Invariance, PTL DEF Spec, NoRevival
-----------------------------------------------------------------------------
(* The manager implements CommandRPC: a step of the detailed specification *)
(* is one step of a call, a delivery, or invisible.                        *)

\* What CommandRPC does not see.
LEMMA InvisibleStep ==
  ASSUME UNCHANGED <<pc, sent, outcome>> PROVE UNCHANGED RPC!vars
  BY DEF RPC!vars, CallState

\* How a step of one caller shows in CallState.
LEMMA CallReturns ==
  ASSUME IInv, NEW c \in Call, pc' = [pc EXCEPT ![c] = "returned"]
  PROVE  CallState' = [CallState EXCEPT ![c] = "done"]
  BY DEF IInv, TypeOK, CallState

\* A caller that waits, or is about to give up, is pending to CommandRPC.
LEMMA CallGoesOn ==
  ASSUME IInv, NEW c \in Call,
         \/ pc' = [pc EXCEPT ![c] = "waiting"]
         \/ pc' = [pc EXCEPT ![c] = "cancelling"]
  PROVE  CallState' = [CallState EXCEPT ![c] = "pending"]
  BY DEF IInv, TypeOK, CallState

\* A step of a caller begins, refuses, answers or fails its call.
LEMMA CallerImplements ==
  ASSUME IInv, NEW c \in Call, CallerStep(c)
  PROVE  RPC!Next \/ UNCHANGED RPC!vars
<1>0. /\ pc[c] = "idle" => CallState[c] = "idle"
      /\ pc[c] \in {"waiting", "cancelling"} => CallState[c] = "pending"
  BY DEF CallState
<1>1. ASSUME NEW s \in Session, Issue(c, s) PROVE RPC!Begin(c)
  <2>1. CallState' = [CallState EXCEPT ![c] = "pending"]
    BY <1>1, CallGoesOn DEF Issue
  <2> QED BY <1>0, <1>1, <2>1 DEF Issue, RPC!Begin
<1>2. ASSUME NEW o \in Refusals, pc[c] = "idle", Return(c, o), UNCHANGED sent
      PROVE  RPC!Refuse(c, o)
  <2>1. CallState' = [CallState EXCEPT ![c] = "done"]
    BY <1>2, CallReturns DEF Return
  <2> QED BY <1>0, <1>2, <2>1 DEF Return, RPC!Refuse
<1>3. ASSUME NEW s \in Session, IssueRejected(c, s) PROVE RPC!Refuse(c, "rejected")
  BY <1>2, <1>3 DEF IssueRejected, Refusals
<1>4. CASE IssueWithoutSession(c)
  <2>1. PICK o \in Refusals : Return(c, o)
    BY <1>4 DEF IssueWithoutSession, Refusals
  <2>2. RPC!Refuse(c, o)
    BY <1>2, <1>4, <2>1 DEF IssueWithoutSession
  <2> QED BY <2>2 DEF RPC!Next
<1>5. ASSUME NEW o \in Failures, pc[c] \in {"waiting", "cancelling"},
             Return(c, o), UNCHANGED sent
      PROVE  RPC!Fail(c, o)
  <2>1. CallState' = [CallState EXCEPT ![c] = "done"]
    BY <1>5, CallReturns DEF Return
  <2> QED BY <1>0, <1>5, <2>1 DEF Return, RPC!Fail
<1>6. CASE ReceiveResult(c)
  <2>1. CallState' = [CallState EXCEPT ![c] = "done"]
    BY <1>6, CallReturns DEF ReceiveResult, Return
  <2>2. sent[c] > 0
    BY <1>6 DEF ReceiveResult, IInv, CallInv
  <2>3. RPC!Answer(c)
    BY <1>0, <1>6, <2>1, <2>2 DEF ReceiveResult, Return, RPC!Answer
  <2> QED BY <2>3 DEF RPC!Next
<1>7. CASE ReceiveClosed(c)
  <2>1. RPC!Fail(c, "session_closed")
    BY <1>5, <1>7 DEF ReceiveClosed, Failures
  <2> QED BY <2>1 DEF RPC!Next, Failures
<1>8. CASE ContextDone(c)
  <2>1. CallState' = [CallState EXCEPT ![c] = "pending"]
    BY <1>8, CallGoesOn DEF ContextDone
  <2>2. CallState' = CallState
    BY <1>0, <1>8, <2>1 DEF ContextDone, CallState
  <2> QED BY <1>8, <2>2 DEF ContextDone, RPC!vars
<1>9. CASE CancelCall(c)
  <2>1. RPC!Fail(c, "ctx_done")
    BY <1>5, <1>9 DEF CancelCall, Failures
  <2> QED BY <2>1 DEF RPC!Next, Failures
<1> QED BY <1>1, <1>3, <1>4, <1>6, <1>7, <1>8, <1>9
        DEF CallerStep, RPC!Next, Refusals

\* Sending a command is the one delivery of it.
LEMMA StreamImplements ==
  ASSUME IInv, NEW s \in Session, StreamStep(s)
  PROVE  RPC!Next \/ UNCHANGED RPC!vars
<1>1. CASE StreamSend(s)
  <2> DEFINE c == Head(queue[s])
  <2>1. c \in Call /\ c = queue[s][1] /\ 1 \in 1 .. Len(queue[s])
    BY <1>1 DEF StreamSend, IInv, TypeOK
  <2>2. sent[c] = 0 /\ callSession[c] # None
    BY <2>1, NoneAssumption DEF IInv, QueueInv, Session
  <2>3. CallState[c] # "idle" /\ outcome[c] \notin Refusals
    BY <2>1, <2>2 DEF IInv, CallInv, CallState
  <2>4. CallState' = CallState
    BY <1>1 DEF StreamSend, StreamMoves, callVars, CallState
  <2>5. RPC!Deliver(c)
    BY <1>1, <2>2, <2>3, <2>4 DEF StreamSend, StreamMoves, callVars, RPC!Deliver
  <2> QED BY <2>1, <2>5 DEF RPC!Next
<1>2. CASE ~StreamSend(s)
  <2>1. \/ StreamAck(s)
        \/ StreamAckFails(s)
        \/ StreamSendFails(s)
        \/ StreamContextDone(s)
        \/ StreamSessionDone(s)
        \/ disconnectRegisteredSession(s)
    BY <1>2 DEF StreamStep
  <2>2. UNCHANGED <<pc, sent, outcome>>
    BY <2>1 DEF StreamAck, StreamAckFails, StreamSendFails,
                StreamContextDone, StreamSessionDone, StreamMoves,
                disconnectRegisteredSession, callVars
  <2> QED BY <2>2, InvisibleStep
<1> QED BY <1>1, <1>2

\* Whatever sessions, queues and late results do, callers see CommandRPC.
THEOREM Refinement == Spec => ImplementsRPC
<1>1. Init => RPC!Init
  BY DEF Init, RPC!Init, CallState
<1>2. IInv /\ [Next]_vars => [RPC!Next]_(RPC!vars)
  <2> SUFFICES ASSUME IInv, [Next]_vars
               PROVE  RPC!Next \/ UNCHANGED RPC!vars
    OBVIOUS
  <2>1. ASSUME NEW s \in Session, StreamStep(s)
        PROVE  RPC!Next \/ UNCHANGED RPC!vars
    BY <2>1, StreamImplements
  <2>2. ASSUME NEW c \in Call, CallerStep(c)
        PROVE  RPC!Next \/ UNCHANGED RPC!vars
    BY <2>2, CallerImplements
  <2>3. CASE UNCHANGED <<pc, sent, outcome>>
    BY <2>3, InvisibleStep
  <2>4. ASSUME NEW a \in Agents, AgentStep(a) PROVE UNCHANGED <<pc, sent, outcome>>
    BY <2>4 DEF AgentStep, RegisterSession, MarkHeartbeat, SubmitResult, callVars
  <2>5. ASSUME NEW c \in Call, AnswerWaiter(c) PROVE UNCHANGED <<pc, sent, outcome>>
    BY <2>5 DEF AnswerWaiter, callVars
  <2>6. Tick \/ UNCHANGED vars => UNCHANGED <<pc, sent, outcome>>
    BY DEF Tick, vars, callVars
  <2> QED BY <2>1, <2>2, <2>3, <2>4, <2>5, <2>6 DEF Next
<1> QED BY <1>1, <1>2, Invariance, PTL DEF Spec, ImplementsRPC, RPC!Spec
-----------------------------------------------------------------------------
(* The manager and an agent joined by a network (AgentTunnel).             *)

\* The types of what the tunnel adds, and of what the agent did.
TunnelTypeOK ==
  /\ process \in 1 .. Len(Processes)
  /\ conn \in Session \cup {None}
  /\ wire \in Seq(Frames)
  /\ late \subseteq SessionID \X Call
  /\ \A r \in late : <<AgentToken, r[1]>> \in Agents
  /\ faults \in 0 .. MaxFaults
  /\ executed \in [Call -> Nat]
  /\ audits \subseteq Call

\* The work on c is done; a query ran once and was audited.
Handled(c) == Kind[c] = "execute_query" => executed[c] = 1 /\ c \in audits

\* A command on the wire is there once, was sent, and has not been executed and
\* is not about to be.
FrameInv ==
  \A j \in 1 .. Len(wire) : wire[j] # Ack =>
    /\ sent[wire[j]] = 1 /\ executed[wire[j]] = 0
    /\ recv = "executing" => command # wire[j]
    /\ \A k \in 1 .. Len(wire) : wire[j] = wire[k] => j = k

\* The command at the agent was sent; its work is done when it is answered.
HandlerInv ==
  /\ recv \in {"executing", "auditing", "submitting"} => command \in Call
  /\ recv = "executing" => sent[command] = 1 /\ executed[command] = 0
  /\ recv = "auditing" => executed[command] = 1
  /\ recv = "submitting" => Handled(command)

\* Every result on its way or arrived is that of work which is done, and no
\* command is sent or executed twice.
AnswerInv ==
  /\ \A c \in Call : sent[c] <= 1 /\ executed[c] <= sent[c]
  /\ \A r \in late : Handled(r[2])
  /\ \A c \in Call : result[c] # None => Handled(c)

\* The inductive invariant of the tunnel.
TunnelInv ==
  /\ IInv
  /\ TunnelTypeOK
  /\ FrameInv
  /\ HandlerInv
  /\ AnswerInv

\* The running process presents a pair of its own.
LEMMA MeIsAgent ==
  ASSUME TunnelTypeOK
  PROVE <<AgentToken, Me>> \in Agents /\ Me \in SessionID
<1>1. process \in 1 .. Len(Processes) /\ Processes \in Seq(SessionID)
  BY TunnelAssumption DEF TunnelTypeOK
<1>2. Processes[process] \in SessionID
  BY <1>1
<1>3. Agents = {<<AgentToken, Processes[k]>> : k \in 1 .. Len(Processes)}
  BY TunnelAssumption
<1> QED
  BY <1>1, <1>2, <1>3 DEF Me

\* What an agent of the tunnel asks of the manager is a step of the manager.
LEMMA RequestIsNext ==
  ASSUME NEW i, <<AgentToken, i>> \in Agents,
         \/ RegisterSession(AgentToken, i)
         \/ MarkHeartbeat(AgentToken, i)
         \/ \E c \in Call : SubmitResult(AgentToken, i, c)
  PROVE Next
<1> DEFINE a == <<AgentToken, i>>
<1>1. a[1] = AgentToken /\ a[2] = i /\ a \in Agents
  OBVIOUS
<1> HIDE DEF a
<1>2. AgentStep(a)
  BY <1>1 DEF AgentStep
<1> QED
  BY <1>1, <1>2 DEF Next

\* A step of the tunnel is a step of the manager, or none of its business.
LEMMA TunnelIsManager ==
  ASSUME TunnelTypeOK, HandlerInv, TunnelNext
  PROVE Next \/ UNCHANGED vars
<1>1. <<AgentToken, Me>> \in Agents
  BY MeIsAgent
<1>2. CASE DialArrives \/ GhostDial
  BY <1>1, <1>2, RequestIsNext DEF DialArrives, GhostDial
<1>3. ASSUME NEW s \in Session, HandlerWrites(s) \/ HandlerNotices(s) \/ HandlerReturns(s)
      PROVE Next
  BY <1>3 DEF HandlerWrites, HandlerNotices, HandlerReturns, StreamStep, Next
<1>4. CASE AgentHeartbeat
  BY <1>1, <1>4, RequestIsNext DEF AgentHeartbeat
<1>5. CASE AgentSubmits
  <2>1. command \in Call
    BY <1>5 DEF AgentSubmits, HandlerInv
  <2> QED
    BY <1>1, <1>5, <2>1, RequestIsNext DEF AgentSubmits
<1>6. CASE AgentMoves /\ ~AgentHeartbeat /\ ~AgentSubmits
  BY <1>6 DEF AgentMoves, AgentConnects, AgentDialFails, AgentReceives, AgentStreamEnds,
    AgentSessionEnds, AgentAlone
<1>7. ASSUME NEW r \in late, LateResult(r)
      PROVE Next \/ UNCHANGED vars
  <2>1. <<AgentToken, r[1]>> \in Agents /\ r[2] \in Call
    BY DEF TunnelTypeOK
  <2>2. SubmitResult(AgentToken, r[1], r[2]) \/ UNCHANGED vars
    BY <1>7 DEF LateResult
  <2> QED
    BY <2>1, <2>2, RequestIsNext
<1>8. CASE StreamBreaks \/ AgentTerminates \/ AgentCrashes
  BY <1>8 DEF StreamBreaks, AgentTerminates, AgentCrashes
<1>9. CASE ControlPlaneAlone
  BY <1>9 DEF ControlPlaneAlone, Next
<1> QED
  BY <1>2, <1>3, <1>4, <1>5, <1>6, <1>7, <1>8, <1>9 DEF TunnelNext, AgentMoves

\* Adding a frame at the end.
LEMMA AppendIndex ==
  ASSUME NEW S, NEW q \in Seq(S), NEW x \in S, NEW j \in 1 .. Len(Append(q, x))
  PROVE  \/ j \in 1 .. Len(q) /\ Append(q, x)[j] = q[j]
         \/ j = Len(q) + 1 /\ Append(q, x)[j] = x
  OBVIOUS

\* What keeps FrameInv: a wire that is as before or empty.
LEMMA FramesKept ==
  ASSUME TunnelInv, UNCHANGED <<sent, executed>>, wire' = wire \/ wire' = <<>>,
         recv' = "executing" => recv = "executing" /\ command' = command
  PROVE  FrameInv'
<1>1. CASE wire' = <<>>
  BY <1>1 DEF FrameInv
<1>2. CASE wire' = wire
  BY <1>2 DEF TunnelInv, FrameInv
<1> QED
  BY <1>1, <1>2

\* What neither sends, executes, audits nor answers.
LEMMA QuietStep ==
  ASSUME TunnelInv, IInv', TunnelTypeOK', UNCHANGED <<executed, audits, sent, result>>,
         late' \subseteq late, wire' = wire \/ wire' = <<>>,
         UNCHANGED <<recv, command>> \/ recv' \in {"receiving", "done"}
  PROVE  TunnelInv'
<1>1. FrameInv'
  BY FramesKept
<1>2. HandlerInv'
  BY DEF TunnelInv, HandlerInv, Handled
<1>3. AnswerInv'
  BY DEF TunnelInv, AnswerInv, Handled
<1> QED
  BY <1>1, <1>2, <1>3 DEF TunnelInv

\* The stream and the dial.
LEMMA StreamKeepsTunnelInv ==
  ASSUME TunnelInv, IInv',
         \/ DialArrives \/ GhostDial \/ StreamBreaks
         \/ AgentConnects \/ AgentDialFails \/ AgentStreamEnds \/ AgentSessionEnds
         \/ AgentTerminates
         \/ \E s \in Session : HandlerNotices(s) \/ HandlerReturns(s)
  PROVE  TunnelInv'
<1>1. UNCHANGED <<executed, audits, sent, result, late, process>>
  BY DEF DialArrives, GhostDial, StreamBreaks, AgentConnects, AgentDialFails,
    AgentStreamEnds, AgentSessionEnds, AgentTerminates, HandlerNotices, HandlerReturns,
    RegisterSession, StreamAckFails, StreamSendFails, StreamContextDone,
    StreamSessionDone, StreamMoves, disconnectRegisteredSession,
    Edge!OpenSucceeds, Edge!OpenFails, Edge!ReceiveEnds, Edge!SessionEnds, Edge!Terminate,
    Edge!dbVars, agentVars, netVars, vars, waiterVars
<1>2. wire' = wire \/ wire' = <<>>
  BY DEF DialArrives, GhostDial, StreamBreaks, AgentConnects, AgentDialFails,
    AgentStreamEnds, AgentSessionEnds, AgentTerminates, HandlerNotices, HandlerReturns,
    HangUp, netVars
<1>3. conn' \in Session \cup {None}
  <2>1. CASE DialArrives
    <3>1. created + 1 \in Session
      BY <2>1, BoundsAssumption DEF DialArrives, RegisterSession, Session, TunnelInv, IInv,
        TypeOK
    <3> QED
      BY <2>1, <3>1 DEF DialArrives
  <2>2. CASE ~DialArrives
    <3>1. conn' \in {conn, None}
      BY <2>2 DEF GhostDial, StreamBreaks, AgentConnects, AgentDialFails,
        AgentStreamEnds, AgentSessionEnds, AgentTerminates, HandlerNotices,
        HandlerReturns, HangUp, netVars
    <3> QED
      BY <3>1 DEF TunnelInv, TunnelTypeOK
  <2> QED
    BY <2>1, <2>2
<1>4. faults' \in 0 .. MaxFaults
  <2>1. faults' = faults \/ Fault
    BY DEF DialArrives, GhostDial, StreamBreaks, AgentConnects, AgentDialFails,
      AgentStreamEnds, AgentSessionEnds, AgentTerminates, HandlerNotices,
      HandlerReturns, NoFault, netVars
  <2> QED
    BY <2>1, TunnelAssumption DEF Fault, TunnelInv, TunnelTypeOK
<1>5. wire' \in Seq(Frames)
  <2>1. <<>> \in Seq(Frames)
    OBVIOUS
  <2> QED
    BY <1>2, <2>1 DEF TunnelInv, TunnelTypeOK
<1>6. TunnelTypeOK'
  BY <1>1, <1>3, <1>4, <1>5 DEF TunnelInv, TunnelTypeOK
<1>7. UNCHANGED <<recv, command>> \/ recv' \in {"receiving", "done"}
  BY DEF DialArrives, GhostDial, StreamBreaks, AgentConnects, AgentDialFails,
    AgentStreamEnds, AgentSessionEnds, AgentTerminates, HandlerNotices, HandlerReturns,
    Edge!OpenSucceeds, Edge!OpenFails, Edge!ReceiveEnds, Edge!SessionEnds, Edge!Terminate,
    agentVars
<1> QED
  BY <1>1, <1>2, <1>6, <1>7, QuietStep

\* A handler writes to its stream: what it sends was never sent before.
LEMMA WriteKeepsTunnelInv ==
  ASSUME TunnelInv, IInv', NEW s \in Session, HandlerWrites(s)
  PROVE  TunnelInv'
<1>0. /\ UNCHANGED <<agentVars, process, conn, broken, late, faults, result>>
      /\ UNCHANGED <<recv, command, executed, audits>>
  BY DEF HandlerWrites, Write, StreamAck, StreamSend, StreamMoves, waiterVars, agentVars
<1>1. ASSUME NEW f \in Frames, Write(s, f), sent' \in [Call -> Nat],
             \A c \in Call : c # f => sent'[c] = sent[c],
             f # Ack => sent[f] = 0 /\ sent'[f] = 1
      PROVE  TunnelInv'
  <2>1. /\ wire \in Seq(Frames) /\ wire' \in {wire, Append(wire, f)}
        /\ executed \in [Call -> Nat] /\ sent \in [Call -> Nat]
    BY <1>1 DEF Write, TunnelInv, TunnelTypeOK, IInv, TypeOK
  <2>2. wire' \in Seq(Frames)
    <3>1. Append(wire, f) \in Seq(Frames)
      BY <2>1
    <3> QED
      BY <2>1, <3>1
  <2>3. TunnelTypeOK'
    BY <1>0, <2>2 DEF TunnelInv, TunnelTypeOK
  <2>4. f # Ack => f \in Call /\ executed[f] = 0
    <3>1. f # Ack => f \in Call
      BY DEF Frames
    <3>2. \A c \in Call : executed[c] <= sent[c] /\ executed[c] \in Nat
      BY <2>1 DEF TunnelInv, AnswerInv
    <3> QED
      BY <1>1, <3>1, <3>2
  <2>5. ASSUME NEW j \in 1 .. Len(wire), wire[j] # Ack
        PROVE  /\ wire[j] # f /\ wire[j] \in Call /\ sent'[wire[j]] = 1
               /\ executed[wire[j]] = 0
               /\ recv = "executing" => command # wire[j]
               /\ \A k \in 1 .. Len(wire) : wire[j] = wire[k] => j = k
    <3>1. wire[j] \in Frames
      BY <2>1
    <3>2. wire[j] \in Call
      BY <2>5, <3>1 DEF Frames
    <3>3. /\ sent[wire[j]] = 1 /\ executed[wire[j]] = 0
          /\ recv = "executing" => command # wire[j]
          /\ \A k \in 1 .. Len(wire) : wire[j] = wire[k] => j = k
      BY <2>5 DEF TunnelInv, FrameInv
    <3> QED
      BY <1>1, <2>5, <3>2, <3>3
  <2>6. f # Ack /\ recv = "executing" => command # f
    BY <1>1 DEF TunnelInv, HandlerInv
  <2>7. FrameInv'
    <3>1. CASE wire' = wire
      BY <1>0, <2>5, <3>1 DEF FrameInv
    <3>2. CASE wire' = Append(wire, f)
      <4> SUFFICES ASSUME NEW j \in 1 .. Len(wire'), wire'[j] # Ack
                   PROVE  /\ sent'[wire'[j]] = 1 /\ executed'[wire'[j]] = 0
                          /\ recv' = "executing" => command' # wire'[j]
                          /\ \A k \in 1 .. Len(wire') : wire'[j] = wire'[k] => j = k
        BY DEF FrameInv
      <4>1. ASSUME NEW k \in 1 .. Len(wire')
            PROVE  \/ k \in 1 .. Len(wire) /\ wire'[k] = wire[k]
                   \/ k = Len(wire) + 1 /\ wire'[k] = f
        <5>1. k \in 1 .. Len(Append(wire, f))
          BY <3>2
        <5> QED
          BY <2>1, <3>2, <5>1, AppendIndex
      <4>2. CASE j \in 1 .. Len(wire) /\ wire'[j] = wire[j]
        <5>1. wire[j] # Ack
          BY <4>2
        <5>2. \A k \in 1 .. Len(wire') : wire'[j] = wire'[k] => j = k
          BY <2>5, <4>1, <4>2, <5>1
        <5> QED
          BY <1>0, <2>5, <4>2, <5>1, <5>2
      <4>3. CASE j = Len(wire) + 1 /\ wire'[j] = f
        <5>1. f # Ack
          BY <4>3
        <5>2. \A k \in 1 .. Len(wire') : wire'[j] = wire'[k] => j = k
          <6> SUFFICES ASSUME NEW k \in 1 .. Len(wire'), wire'[k] = f
                       PROVE  j = k
            BY <4>3
          <6>1. k \notin 1 .. Len(wire) \/ wire'[k] # wire[k]
            BY <2>5, <5>1
          <6> QED
            BY <4>1, <4>3, <6>1
        <5> QED
          BY <1>0, <1>1, <2>4, <2>6, <4>3, <5>1, <5>2
      <4> QED
        BY <4>1, <4>2, <4>3
    <3> QED
      BY <2>1, <3>1, <3>2
  <2>8. HandlerInv'
    <3>1. recv = "executing" => sent'[command] = 1
      <4>1. recv = "executing" => command \in Call /\ sent[command] = 1
        BY DEF TunnelInv, HandlerInv
      <4> QED
        BY <1>1, <4>1, TunnelAssumption
    <3> QED
      BY <1>0, <3>1 DEF TunnelInv, HandlerInv, Handled
  <2>9. AnswerInv'
    <3>1. ASSUME NEW c \in Call
          PROVE  sent'[c] <= 1 /\ executed[c] <= sent'[c]
      <4>1. sent[c] <= 1 /\ executed[c] <= sent[c] /\ executed[c] \in Nat /\ sent[c] \in Nat
        BY <2>1 DEF TunnelInv, AnswerInv
      <4>2. CASE c = f
        BY <1>1, <2>4, <4>2, TunnelAssumption
      <4>3. CASE c # f
        BY <1>1, <4>1, <4>3
      <4> QED
        BY <4>2, <4>3
    <3> QED
      BY <1>0, <3>1 DEF TunnelInv, AnswerInv, Handled
  <2> QED
    BY <2>3, <2>7, <2>8, <2>9 DEF TunnelInv
<1>2. CASE StreamAck(s) /\ Write(s, Ack)
  <2>1. sent' = sent /\ Ack \in Frames
    BY <1>2 DEF StreamAck, Frames
  <2> QED
    BY <1>1, <1>2, <2>1 DEF TunnelInv, IInv, TypeOK
<1>3. CASE StreamSend(s) /\ Write(s, Head(queue[s]))
  <2> DEFINE f == Head(queue[s])
  <2>1. f \in Call /\ f = queue[s][1] /\ 1 \in 1 .. Len(queue[s])
    BY <1>3 DEF StreamSend, TunnelInv, IInv, TypeOK
  <2>2. sent[f] = 0
    BY <2>1 DEF TunnelInv, IInv, QueueInv
  <2>3. sent' = [sent EXCEPT ![f] = @ + 1] /\ sent \in [Call -> Nat]
    BY <1>3 DEF StreamSend, TunnelInv, IInv, TypeOK
  <2>4. f \in Frames /\ Write(s, f)
    BY <1>3, <2>1 DEF Frames
  <2> HIDE DEF f
  <2>5. /\ sent' \in [Call -> Nat] /\ sent'[f] = 1
        /\ \A c \in Call : c # f => sent'[c] = sent[c]
    BY <2>1, <2>2, <2>3
  <2> QED
    BY <1>1, <2>2, <2>4, <2>5
<1> QED
  BY <1>2, <1>3 DEF HandlerWrites

\* The agent takes a frame from its stream; a command is not on it again.
LEMMA ReceiveKeepsTunnelInv ==
  ASSUME TunnelInv, IInv', AgentReceives
  PROVE  TunnelInv' /\ (Head(wire) \in Call => executed[Head(wire)] = 0)
<1> DEFINE f == Head(wire)
<1>1. /\ UNCHANGED <<process, conn, late, faults, sent, result, executed, audits>>
      /\ wire # <<>> /\ wire' = Tail(wire)
  BY DEF AgentReceives, vars, waiterVars, Edge!ReceiveAck, Edge!Receive, Edge!agentVars,
    Edge!dbVars
<1>2. /\ wire \in Seq(Frames) /\ 1 \in 1 .. Len(wire) /\ f = wire[1]
      /\ f \in Frames /\ Tail(wire) \in Seq(Frames)
  BY <1>1 DEF TunnelInv, TunnelTypeOK
<1>3. \/ f = Ack /\ UNCHANGED <<recv, command>>
      \/ /\ f \in Call /\ command' = f
         /\ recv' = IF Kind[f] = "ping" THEN "submitting" ELSE "executing"
  BY DEF AgentReceives, Edge!ReceiveAck, Edge!Receive, Edge!agentVars, Edge!PingKind
<1>4. f \in Call => /\ f # Ack /\ sent[f] = 1 /\ executed[f] = 0
                    /\ \A k \in 1 .. Len(wire) : f = wire[k] => 1 = k
  BY <1>2, TunnelAssumption DEF TunnelInv, FrameInv
<1>5. TunnelTypeOK'
  BY <1>1, <1>2 DEF TunnelInv, TunnelTypeOK
<1> HIDE DEF f
<1>6. FrameInv'
  <2> SUFFICES ASSUME NEW j \in 1 .. Len(wire'), wire'[j] # Ack
               PROVE  /\ sent[wire'[j]] = 1 /\ executed[wire'[j]] = 0
                      /\ recv' = "executing" => command' # wire'[j]
                      /\ \A k \in 1 .. Len(wire') : wire'[j] = wire'[k] => j = k
    BY <1>1 DEF FrameInv
  <2>1. ASSUME NEW k \in 1 .. Len(wire')
        PROVE  k + 1 \in 1 .. Len(wire) /\ wire'[k] = wire[k + 1] /\ k \in Int
    <3>1. k \in 1 .. Len(Tail(wire))
      BY <1>1
    <3> QED
      BY <1>1, <1>2, <3>1, TailIndex
  <2>2. /\ sent[wire'[j]] = 1 /\ executed[wire'[j]] = 0
        /\ recv = "executing" => command # wire'[j]
        /\ \A k \in 1 .. Len(wire) : wire'[j] = wire[k] => j + 1 = k
    BY <2>1 DEF TunnelInv, FrameInv
  <2>3. \A k \in 1 .. Len(wire') : wire'[j] = wire'[k] => j = k
    <3> SUFFICES ASSUME NEW k \in 1 .. Len(wire'), wire'[j] = wire'[k]
                 PROVE  j = k
      OBVIOUS
    <3>1. j + 1 = k + 1 /\ j \in Int /\ k \in Int
      BY <2>1, <2>2
    <3> QED
      BY <3>1
  <2>4. f \in Call => f # wire'[j]
    <3>1. j + 1 # 1
      BY <2>1
    <3> QED
      BY <1>4, <2>1, <3>1
  <2> QED
    BY <1>3, <2>2, <2>3, <2>4
<1>7. HandlerInv'
  BY <1>1, <1>3, <1>4 DEF TunnelInv, HandlerInv, Handled
<1>8. AnswerInv'
  BY <1>1 DEF TunnelInv, AnswerInv, Handled
<1> QED
  BY <1>4, <1>5, <1>6, <1>7, <1>8 DEF TunnelInv, f

\* The agent by itself: it executes a command once, and audits a query.
LEMMA AloneKeepsTunnelInv ==
  ASSUME TunnelInv, IInv', AgentAlone
  PROVE  TunnelInv'
<1>1. UNCHANGED <<process, conn, wire, late, faults, sent, result>>
  BY DEF AgentAlone, vars, netVars, waiterVars
<1>2. CASE Edge!Execute
  <2>1. /\ recv = "executing" /\ command' = command /\ audits' = audits
        /\ executed' = [executed EXCEPT ![command] = @ + 1]
        /\ recv' = IF Kind[command] = "execute_query" THEN "auditing" ELSE "submitting"
    BY <1>2 DEF Edge!Execute, Edge!AfterExecute, Edge!QueryKind
  <2>2. /\ command \in Call /\ executed[command] = 0 /\ sent[command] = 1
        /\ executed \in [Call -> Nat]
    BY <2>1 DEF TunnelInv, HandlerInv, TunnelTypeOK
  <2>3. /\ executed' \in [Call -> Nat] /\ executed'[command] = 1
        /\ \A c \in Call : c # command => executed'[c] = executed[c]
    BY <2>1, <2>2
  <2>4. TunnelTypeOK'
    BY <1>1, <2>1, <2>3 DEF TunnelInv, TunnelTypeOK
  <2>5. FrameInv'
    <3> SUFFICES ASSUME NEW j \in 1 .. Len(wire), wire[j] # Ack
                 PROVE  /\ sent[wire[j]] = 1 /\ executed'[wire[j]] = 0
                        /\ recv' = "executing" => command' # wire[j]
                        /\ \A k \in 1 .. Len(wire) : wire[j] = wire[k] => j = k
      BY <1>1 DEF FrameInv
    <3>1. wire[j] \in Frames
      BY DEF TunnelInv, TunnelTypeOK
    <3>2. wire[j] \in Call
      BY <3>1 DEF Frames
    <3>3. /\ sent[wire[j]] = 1 /\ executed[wire[j]] = 0 /\ command # wire[j]
          /\ \A k \in 1 .. Len(wire) : wire[j] = wire[k] => j = k
      BY <2>1 DEF TunnelInv, FrameInv
    <3> QED
      BY <2>1, <2>3, <3>2, <3>3
  <2>6. HandlerInv'
    BY <2>1, <2>2, <2>3 DEF HandlerInv, Handled
  <2>7. \A c \in Call : Handled(c) => Handled(c)'
    BY <2>1, <2>2, <2>3 DEF Handled
  <2>8. AnswerInv'
    <3>1. \A c \in Call : sent[c] <= 1 /\ executed'[c] <= sent[c]
      BY <2>2, <2>3 DEF TunnelInv, AnswerInv
    <3>2. \A r \in late : r[2] \in Call
      BY DEF TunnelInv, TunnelTypeOK
    <3> QED
      BY <1>1, <2>7, <3>1, <3>2 DEF TunnelInv, AnswerInv
  <2> QED
    BY <2>4, <2>5, <2>6, <2>8 DEF TunnelInv
<1>3. CASE Edge!recordQueryAudit
  <2>1. /\ recv = "auditing" /\ recv' = "submitting" /\ audits' = audits \cup {command}
        /\ UNCHANGED <<command, executed>>
    BY <1>3 DEF Edge!recordQueryAudit
  <2>2. command \in Call /\ executed[command] = 1
    BY <2>1 DEF TunnelInv, HandlerInv
  <2>3. TunnelTypeOK'
    BY <1>1, <2>1, <2>2 DEF TunnelInv, TunnelTypeOK
  <2>4. FrameInv'
    BY <1>1, <2>1, FramesKept
  <2>5. HandlerInv'
    BY <2>1, <2>2 DEF HandlerInv, Handled
  <2>6. AnswerInv'
    BY <1>1, <2>1 DEF TunnelInv, AnswerInv, Handled
  <2> QED
    BY <2>3, <2>4, <2>5, <2>6 DEF TunnelInv
<1>4. CASE Edge!HeartbeatTick \/ Edge!HeartbeatStops \/ Edge!SleepEnds \/ Edge!SleepInterrupted
  <2>1. UNCHANGED <<recv, command, executed, audits>>
    BY <1>4 DEF Edge!HeartbeatTick, Edge!HeartbeatStops, Edge!SleepEnds,
      Edge!SleepInterrupted, Edge!dbVars
  <2>2. TunnelTypeOK'
    BY <1>1, <2>1 DEF TunnelInv, TunnelTypeOK
  <2> QED
    BY <1>1, <2>1, <2>2, QuietStep
<1> QED
  BY <1>2, <1>3, <1>4 DEF AgentAlone

\* Results leave the agent, arrive or are given up; all are of work that is done.
LEMMA ResultStep ==
  ASSUME TunnelInv, IInv', TunnelTypeOK', UNCHANGED <<executed, audits, sent>>,
         wire' = wire \/ wire' = <<>>,
         UNCHANGED <<recv, command>> \/ recv' \in {"receiving", "done"},
         NEW c \in Call, NEW i, Handled(c),
         result' = result \/ result' = [result EXCEPT ![c] = i],
         late' \subseteq late \cup {<<Me, c>>}
  PROVE  TunnelInv'
<1>1. FrameInv'
  BY FramesKept
<1>2. HandlerInv'
  BY DEF TunnelInv, HandlerInv, Handled
<1>3. \A d \in Call : result'[d] # None => Handled(d)
  <2>1. result \in [Call -> SessionID \cup {None}]
    BY DEF TunnelInv, IInv, TypeOK
  <2> QED
    BY <2>1 DEF TunnelInv, AnswerInv
<1>4. \A r \in late' : Handled(r[2])
  BY DEF TunnelInv, AnswerInv
<1>5. AnswerInv'
  BY <1>3, <1>4 DEF TunnelInv, AnswerInv, Handled
<1> QED
  BY <1>1, <1>2, <1>5 DEF TunnelInv

\* A result on its way is labelled with the agent that has it.
LEMMA LateType ==
  ASSUME TunnelInv, NEW c \in Call, late' \subseteq late \cup {<<Me, c>>}
  PROVE  late' \subseteq SessionID \X Call /\ \A r \in late' : <<AgentToken, r[1]>> \in Agents
<1>1. <<AgentToken, Me>> \in Agents /\ Me \in SessionID
  BY MeIsAgent DEF TunnelInv
<1>2. late \subseteq SessionID \X Call /\ \A r \in late : <<AgentToken, r[1]>> \in Agents
  BY DEF TunnelInv, TunnelTypeOK
<1>3. <<Me, c>> \in SessionID \X Call /\ <<Me, c>>[1] = Me
  BY <1>1
<1> QED
  BY <1>1, <1>2, <1>3

\* What the agent submits, and what its process leaves behind when it dies.
LEMMA SubmitKeepsTunnelInv ==
  ASSUME TunnelInv, IInv', AgentSubmits \/ AgentCrashes
  PROVE  TunnelInv'
<1>0. faults' \in 0 .. MaxFaults
  <2>1. faults' = faults \/ Fault
    BY DEF AgentSubmits, AgentCrashes, NoFault
  <2> QED
    BY <2>1, TunnelAssumption DEF Fault, TunnelInv, TunnelTypeOK
<1>1. CASE AgentSubmits
  <2>1. recv = "submitting" /\ UNCHANGED <<process, conn, wire>>
    BY <1>1 DEF AgentSubmits
  <2>2. command \in Call /\ Handled(command)
    BY <2>1 DEF TunnelInv, HandlerInv
  <2>3. UNCHANGED <<executed, audits>> /\ recv' \in {"receiving", "done"}
    BY <1>1 DEF AgentSubmits, Edge!SubmitOK, Edge!SubmitFails, Edge!dbVars
  <2>4. sent' = sent /\ (result' = result \/ result' = [result EXCEPT ![command] = Me])
    BY <1>1 DEF AgentSubmits, SubmitResult, vars, waiterVars
  <2>5. late' \subseteq late \cup {<<Me, command>>}
    BY <1>1 DEF AgentSubmits
  <2>6. TunnelTypeOK'
    BY <1>0, <2>1, <2>2, <2>3, <2>5, LateType DEF TunnelInv, TunnelTypeOK
  <2> QED
    BY <2>1, <2>2, <2>3, <2>4, <2>5, <2>6, ResultStep
<1>2. CASE AgentCrashes
  <2>1. /\ UNCHANGED <<executed, audits, sent, result>> /\ recv' = "done"
        /\ process < Len(Processes) /\ process' = process + 1
        /\ conn' = None /\ wire' = <<>>
        /\ late' \in IF recv = "submitting" THEN {late, late \cup {<<Me, command>>}}
                                            ELSE {late}
    BY <1>2 DEF AgentCrashes, HangUp, Edge!Crash, Edge!Boot, Edge!dbVars, vars, waiterVars
  <2>2. process' \in 1 .. Len(Processes) /\ <<>> \in Seq(Frames)
    BY <2>1, TunnelAssumption DEF TunnelInv, TunnelTypeOK
  <2>3. CASE late' = late
    <3>1. TunnelTypeOK'
      BY <1>0, <2>1, <2>2, <2>3 DEF TunnelInv, TunnelTypeOK
    <3> QED
      BY <2>1, <2>3, <3>1, QuietStep
  <2>4. CASE recv = "submitting" /\ late' = late \cup {<<Me, command>>}
    <3>1. command \in Call /\ Handled(command)
      BY <2>4 DEF TunnelInv, HandlerInv
    <3>2. late' \subseteq late \cup {<<Me, command>>}
      BY <2>4
    <3>3. TunnelTypeOK'
      BY <1>0, <2>1, <2>2, <3>1, <3>2, LateType DEF TunnelInv, TunnelTypeOK
    <3> QED
      BY <2>1, <3>1, <3>2, <3>3, ResultStep
  <2> QED
    BY <2>1, <2>3, <2>4
<1> QED
  BY <1>1, <1>2

\* A result that comes late.
LEMMA LateKeepsTunnelInv ==
  ASSUME TunnelInv, IInv', NEW r \in late, LateResult(r)
  PROVE  TunnelInv'
<1>1. UNCHANGED <<recv, command, executed, audits, process, conn, wire, faults, sent>>
  BY DEF LateResult, agentVars, SubmitResult, vars
<1>2. late' \subseteq late /\ r[2] \in Call /\ Handled(r[2])
  BY DEF LateResult, TunnelInv, TunnelTypeOK, AnswerInv
<1>3. result' = result \/ result' = [result EXCEPT ![r[2]] = r[1]]
  BY DEF LateResult, SubmitResult, vars, waiterVars
<1>4. TunnelTypeOK'
  BY <1>1, <1>2 DEF TunnelInv, TunnelTypeOK
<1> QED
  BY <1>1, <1>2, <1>3, <1>4, ResultStep

\* Heartbeats, and the control plane by itself.
LEMMA ElseKeepsTunnelInv ==
  ASSUME TunnelInv, IInv', AgentHeartbeat \/ ControlPlaneAlone
  PROVE  TunnelInv'
<1>1. UNCHANGED <<recv, command, executed, audits, process, conn, wire, late>>
  BY DEF AgentHeartbeat, ControlPlaneAlone, agentVars, netVars, Edge!HeartbeatOK,
    Edge!HeartbeatFails, Edge!dbVars
<1>2. UNCHANGED <<sent, result>>
  <2>1. CASE AgentHeartbeat
    BY <2>1 DEF AgentHeartbeat, MarkHeartbeat, vars, waiterVars
  <2>2. CASE ControlPlaneAlone
    BY <2>2 DEF ControlPlaneAlone, Tick, CallerStep, Issue, IssueRejected,
      IssueWithoutSession, ReceiveResult, ReceiveClosed, ContextDone, CancelCall,
      AnswerWaiter, waiterVars
  <2> QED
    BY <2>1, <2>2
<1>3. faults' \in 0 .. MaxFaults
  <2>1. faults' = faults \/ Fault
    BY DEF AgentHeartbeat, ControlPlaneAlone, NoFault, netVars
  <2> QED
    BY <2>1, TunnelAssumption DEF Fault, TunnelInv, TunnelTypeOK
<1>4. TunnelTypeOK'
  BY <1>1, <1>3 DEF TunnelInv, TunnelTypeOK
<1> QED
  BY <1>1, <1>2, <1>4, QuietStep

\* Nothing is on its way yet.
LEMMA TunnelInitInv == TunnelInit => TunnelInv
<1> SUFFICES ASSUME TunnelInit PROVE TunnelInv
  OBVIOUS
<1>1. IInv
  BY InitIInv DEF TunnelInit
<1>2. /\ executed = [c \in Call |-> 0] /\ audits = {} /\ recv = "done"
      /\ sent = [c \in Call |-> 0] /\ result = [c \in Call |-> None]
  BY DEF TunnelInit, Init, Edge!AgentInit
<1>3. wire = <<>> /\ <<>> \in Seq(Frames) /\ process \in 1 .. Len(Processes)
  BY TunnelAssumption DEF TunnelInit
<1>4. TunnelTypeOK
  BY <1>2, <1>3, TunnelAssumption DEF TunnelInit, TunnelTypeOK
<1>5. FrameInv
  BY <1>3 DEF FrameInv
<1>6. HandlerInv /\ AnswerInv
  BY <1>2 DEF TunnelInit, HandlerInv, AnswerInv
<1> QED
  BY <1>1, <1>4, <1>5, <1>6 DEF TunnelInv

\* Every step of the tunnel keeps its invariant.
LEMMA TunnelNextInv == TunnelInv /\ [TunnelNext]_tunnelVars => TunnelInv'
<1> SUFFICES ASSUME TunnelInv, [TunnelNext]_tunnelVars PROVE TunnelInv'
  OBVIOUS
<1>1. CASE UNCHANGED tunnelVars
  <2>1. UNCHANGED vars /\ UNCHANGED agentVars /\ UNCHANGED netVars
    BY <1>1 DEF tunnelVars
  <2>2. IInv'
    BY <2>1, StutterIInv DEF TunnelInv
  <2>3. UNCHANGED <<recv, command, executed, audits, process, conn, wire, late, faults,
                    sent, result>>
    BY <2>1 DEF agentVars, netVars, vars, waiterVars
  <2>4. TunnelTypeOK'
    BY <2>3 DEF TunnelInv, TunnelTypeOK
  <2> QED
    BY <2>2, <2>3, <2>4, QuietStep
<1>2. CASE TunnelNext
  <2>1. Next \/ UNCHANGED vars
    BY <1>2, TunnelIsManager DEF TunnelInv
  <2>2. IInv'
    BY <2>1, NextIInv DEF TunnelInv
  <2> QED
    BY <1>2, <2>2, StreamKeepsTunnelInv, WriteKeepsTunnelInv, ReceiveKeepsTunnelInv,
      AloneKeepsTunnelInv, SubmitKeepsTunnelInv, LateKeepsTunnelInv, ElseKeepsTunnelInv
    DEF TunnelNext, AgentMoves
<1> QED
  BY <1>1, <1>2

\* Manager, agent and network together keep their invariant: a command is on the
\* wire at most once and before its execution, results follow the work.
THEOREM TunnelInvariance == TunnelSpec => []TunnelInv
  BY TunnelInitInv, TunnelNextInv, PTL DEF TunnelSpec

\* No command reaches a database twice, or after its caller was refused.
THEOREM AtMostOnce == TunnelSpec => []ExecutedAtMostOnce
<1>1. TunnelInv => ExecutedAtMostOnce
  <2> SUFFICES ASSUME TunnelInv, NEW c \in Call
               PROVE  executed[c] <= 1 /\ (outcome[c] \in Refusals => executed[c] = 0)
    BY DEF ExecutedAtMostOnce
  <2>1. /\ sent[c] <= 1 /\ executed[c] <= sent[c]
        /\ executed[c] \in Nat /\ sent[c] \in Nat
    BY DEF TunnelInv, AnswerInv, TunnelTypeOK, IInv, TypeOK
  <2>2. outcome[c] \in Refusals => sent[c] = 0
    BY DEF TunnelInv, IInv, CallInv
  <2> QED
    BY <2>1, <2>2
<1> QED
  BY <1>1, TunnelInvariance, PTL

\* A caller gets rows only of a query that ran once and was audited.
THEOREM AnswersAudited == TunnelSpec => []AnswerIsAudited
<1>1. TunnelInv => AnswerIsAudited
  BY DEF TunnelInv, IInv, CallInv, AnswerInv, Handled, AnswerIsAudited
<1> QED
  BY <1>1, TunnelInvariance, PTL

\* Seen from the control plane the tunnel is AgentSessions: what is proved of
\* the manager with arbitrary agents holds with this one.
THEOREM TunnelImplementsManager == TunnelSpec => Spec
<1>1. TunnelInit => Init
  BY DEF TunnelInit
<1>2. TunnelInv /\ [TunnelNext]_tunnelVars => [Next]_vars
  BY TunnelIsManager DEF TunnelInv, tunnelVars
<1> QED
  BY <1>1, <1>2, TunnelInvariance, PTL DEF TunnelSpec, Spec

\* So callers are promised the same over a network that loses, delays and breaks:
\* one outcome per call, at most one delivery, none after a refusal.
THEOREM TunnelKeepsPromise == TunnelSpec => ImplementsRPC
  BY TunnelImplementsManager, Refinement

\* Seen from the host the tunnel is EdgeAgent: the network never delivers a
\* command a second time.
THEOREM TunnelImplementsAgent == TunnelSpec => Edge!AgentSpec
<1>1. TunnelInit => Edge!AgentInit
  BY DEF TunnelInit
<1>2. TunnelInv /\ TunnelInv' /\ [TunnelNext]_tunnelVars => [Edge!AgentNext]_(Edge!agentVars)
  <2> SUFFICES ASSUME TunnelInv, TunnelInv', [TunnelNext]_tunnelVars
               PROVE  Edge!AgentNext \/ UNCHANGED Edge!agentVars
    OBVIOUS
  <2>1. UNCHANGED agentVars => UNCHANGED Edge!agentVars
    BY DEF agentVars, Edge!agentVars, Edge!loopVars, Edge!dbVars
  <2>2. CASE UNCHANGED agentVars
    BY <2>1, <2>2
  <2>3. CASE AgentReceives
    <3>1. Head(wire) \in Call => executed[Head(wire)] = 0
      BY <2>3, ReceiveKeepsTunnelInv DEF TunnelInv
    <3> QED
      BY <2>3, <3>1 DEF AgentReceives, Edge!AgentNext
  <2>4. CASE AgentMoves /\ ~AgentReceives
    BY <2>4 DEF AgentMoves, AgentConnects, AgentDialFails, AgentStreamEnds,
      AgentSessionEnds, AgentHeartbeat, AgentSubmits, AgentAlone, Edge!AgentNext,
      Edge!LoopStep, Edge!HeartbeatStep, Edge!HandlerStep
  <2>5. CASE AgentTerminates \/ AgentCrashes
    BY <2>5 DEF AgentTerminates, AgentCrashes, Edge!AgentNext
  <2>6. ASSUME NEW s \in Session, HandlerWrites(s) \/ HandlerNotices(s) \/ HandlerReturns(s)
        PROVE  UNCHANGED agentVars
    BY <2>6 DEF HandlerWrites, HandlerNotices, HandlerReturns, Write
  <2>7. ASSUME NEW r \in late, LateResult(r) PROVE UNCHANGED agentVars
    BY <2>7 DEF LateResult
  <2>8. CASE DialArrives \/ GhostDial \/ StreamBreaks \/ ControlPlaneAlone
    BY <2>1, <2>8 DEF DialArrives, GhostDial, StreamBreaks, ControlPlaneAlone
  <2>9. CASE UNCHANGED tunnelVars
    BY <2>1, <2>9 DEF tunnelVars
  <2> QED
    BY <2>1, <2>3, <2>4, <2>5, <2>6, <2>7, <2>8, <2>9 DEF TunnelNext
<1> QED
  BY <1>1, <1>2, TunnelInvariance, PTL DEF TunnelSpec, Edge!AgentSpec
=============================================================================
