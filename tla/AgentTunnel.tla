---------------------------- MODULE AgentTunnel ----------------------------
(***************************************************************************)
(* The control plane's session manager (AgentSessions) and an edge agent   *)
(* (EdgeAgent) joined by a network: a command stream from the one to the   *)
(* other, and the agent's unary requests back.                             *)
(*                                                                         *)
(* The agent has one token.  When its process dies the next one draws a    *)
(* new session id.  The network breaks the stream, loses a request, loses  *)
(* the response to a request that was served, or delivers a request after  *)
(* the agent has given it up; a fault budget bounds how often.  A stream   *)
(* is a FIFO until it breaks; what it holds then is lost.                  *)
(***************************************************************************)
EXTENDS AgentSessions

CONSTANTS
  AgentToken,
  Processes,      \* the session ids of the agent's successive processes
  ReconnectBase,
  ReconnectMax,
  MaxRefusals,
  MaxFaults       \* bound: things the network or the host do wrong

Ack == "ack"

ASSUME TunnelAssumption ==
  /\ Processes \in Seq(SessionID) /\ Len(Processes) > 0
  /\ Agents = {<<AgentToken, Processes[k]>> : k \in 1 .. Len(Processes)}
  /\ MaxFaults \in Nat
  /\ Ack \notin Call

VARIABLES
  run, ctxLive, sessionLive, connected, backoff, delay, beat, recv, command,
  executed, audits, refusals,     \* of EdgeAgent
  process,      \* number of the running process
  conn,         \* the session at the other end of the agent's stream, or None
  broken,       \* that stream has failed; neither end may know yet
  wire,         \* frames on the stream
  late,         \* results on their way whose sender has given up on them
  faults        \* faults so far

Edge == INSTANCE EdgeAgent WITH Command <- Call

agentVars == <<run, ctxLive, sessionLive, connected, backoff, delay, refusals,
               beat, recv, command, executed, audits>>
netVars == <<process, conn, broken, wire, late, faults>>
tunnelVars == <<vars, agentVars, netVars>>

Frames == Call \cup {Ack}
Me == Processes[process]    \* session id of the running process

TunnelInit ==
  /\ Init
  /\ Edge!AgentInit
  /\ process = 1
  /\ conn = None
  /\ broken = FALSE
  /\ wire = <<>>
  /\ late = {}
  /\ faults = 0

Fault == faults < MaxFaults /\ faults' = faults + 1
NoFault == UNCHANGED faults

-----------------------------------------------------------------------------
(* The stream.                                                             *)

\* The dial reaches the control plane, which registers the session before it
\* sends the first frame.
DialArrives ==
  /\ run = "dialing"
  /\ conn = None
  /\ RegisterSession(AgentToken, Me)
  /\ conn' = created + 1
  /\ broken' = FALSE
  /\ wire' = <<>>
  /\ UNCHANGED <<agentVars, process, late, faults>>

\* A dial the agent has given up arrives after all; nobody reads that stream.
GhostDial ==
  /\ Fault
  /\ RegisterSession(AgentToken, Me)
  /\ UNCHANGED <<agentVars, process, conn, broken, wire, late>>

\* The handler of s still reaches the agent.
Joined(s) == s = conn /\ ~broken

StreamDown(s) ==
  \/ s # conn
  \/ broken
  \/ run = "session" /\ ~sessionLive
  \/ run # "session" /\ ~ctxLive

\* A frame written to a stream that is gone is lost without an error.
Write(s, f) ==
  /\ wire' = IF Joined(s) THEN Append(wire, f) ELSE wire
  /\ UNCHANGED <<agentVars, process, conn, broken, late, faults>>

HandlerWrites(s) ==
  \/ StreamAck(s) /\ Write(s, Ack)
  \/ StreamSend(s) /\ Write(s, Head(queue[s]))

\* The control plane notices that the stream is down, while writing or waiting.
HandlerNotices(s) ==
  /\ StreamDown(s)
  /\ StreamAckFails(s) \/ StreamSendFails(s) \/ StreamContextDone(s)
  /\ UNCHANGED <<agentVars, netVars>>

HandlerReturns(s) ==
  /\ StreamSessionDone(s) \/ disconnectRegisteredSession(s)
  /\ UNCHANGED <<agentVars, netVars>>

StreamBreaks ==
  /\ conn # None
  /\ ~broken
  /\ Fault
  /\ broken' = TRUE
  /\ wire' = <<>>
  /\ UNCHANGED <<vars, agentVars, process, conn, late>>

\* What the agent sees of its stream.
AtEnd ==
  /\ conn # None
  /\ broken \/ (wire = <<>> /\ stream[conn] = "gone")

HangUp == conn' = None /\ wire' = <<>> /\ broken' = FALSE

AgentConnects ==
  /\ conn # None
  /\ wire # <<>>
  /\ Edge!OpenSucceeds
  /\ UNCHANGED <<vars, netVars>>

\* Before the control plane has seen the dial, or after.
AgentDialFails ==
  /\ \/ AtEnd /\ NoFault
     \/ ~ctxLive /\ NoFault
     \/ conn = None /\ ctxLive /\ Fault
  /\ Edge!OpenFails
  /\ HangUp
  /\ UNCHANGED <<vars, process, late>>

AgentReceives ==
  /\ wire # <<>>
  /\ wire' = Tail(wire)
  /\ \/ Head(wire) = Ack /\ Edge!ReceiveAck
     \/ Head(wire) \in Call /\ Edge!Receive(Head(wire))
  /\ UNCHANGED <<vars, process, conn, broken, late, faults>>

AgentStreamEnds ==
  /\ AtEnd \/ ~sessionLive
  /\ Edge!ReceiveEnds
  /\ UNCHANGED <<vars, netVars>>

AgentSessionEnds ==
  /\ Edge!SessionEnds
  /\ HangUp
  /\ UNCHANGED <<vars, process, late, faults>>

-----------------------------------------------------------------------------
(* The agent's requests.                                                   *)

Refused == \A s \in Session : ~sessionLocked(AgentToken, Me, s)

AgentHeartbeat ==
  /\ \/ MarkHeartbeat(AgentToken, Me) /\ Edge!HeartbeatOK /\ NoFault
     \/ MarkHeartbeat(AgentToken, Me) /\ Edge!HeartbeatFails /\ Fault
     \/ UNCHANGED vars /\ Edge!HeartbeatFails /\ Fault
     \/ /\ Refused \/ ~sessionLive
        /\ UNCHANGED vars /\ Edge!HeartbeatFails /\ NoFault
  /\ UNCHANGED <<process, conn, broken, wire, late>>

\* The control plane has no use for the result of c.
ResultRefused(i, c) ==
  \A s \in Session : ~(sessionLocked(AgentToken, i, s) /\ c \in pending[s])

AgentSubmits ==
  /\ recv = "submitting"
  /\ \/ /\ SubmitResult(AgentToken, Me, command)
        /\ \/ Edge!SubmitOK /\ NoFault
           \/ Edge!SubmitFails /\ Fault
        /\ UNCHANGED late
     \/ /\ Edge!SubmitFails
        /\ ResultRefused(Me, command) \/ ~sessionLive
        /\ NoFault
        /\ UNCHANGED <<vars, late>>
     \/ /\ Edge!SubmitFails
        /\ Fault
        /\ late' \in {late, late \cup {<<Me, command>>}}
        /\ UNCHANGED vars
  /\ UNCHANGED <<process, conn, broken, wire>>

\* A result the agent gave up on arrives after all.
LateResult(r) ==
  /\ r \in late
  /\ late' = late \ {r}
  /\ \/ SubmitResult(AgentToken, r[1], r[2])
     \/ ResultRefused(r[1], r[2]) /\ UNCHANGED vars
  /\ UNCHANGED <<agentVars, process, conn, broken, wire, faults>>

-----------------------------------------------------------------------------
(* The agent by itself.                                                    *)

AgentAlone ==
  /\ \/ Edge!HeartbeatTick
     \/ Edge!HeartbeatStops
     \/ Edge!Execute
     \/ Edge!recordQueryAudit
     \/ Edge!SleepEnds
     \/ Edge!SleepInterrupted
  /\ UNCHANGED <<vars, netVars>>

AgentTerminates ==
  /\ Fault
  /\ Edge!Terminate
  /\ UNCHANGED <<vars, process, conn, broken, wire, late>>

\* A result being sent when the process dies may still be on its way.
AgentCrashes ==
  /\ process < Len(Processes)
  /\ Fault
  /\ Edge!Crash
  /\ process' = process + 1
  /\ late' \in IF recv = "submitting" THEN {late, late \cup {<<Me, command>>}} ELSE {late}
  /\ HangUp
  /\ UNCHANGED vars

\* The control plane by itself.
ControlPlaneAlone ==
  /\ Tick \/ \E c \in Call : CallerStep(c) \/ AnswerWaiter(c)
  /\ UNCHANGED <<agentVars, netVars>>

AgentMoves ==
  \/ AgentConnects
  \/ AgentDialFails
  \/ AgentReceives
  \/ AgentStreamEnds
  \/ AgentSessionEnds
  \/ AgentHeartbeat
  \/ AgentSubmits
  \/ AgentAlone

TunnelNext ==
  \/ DialArrives
  \/ GhostDial
  \/ \E s \in Session : HandlerWrites(s) \/ HandlerNotices(s) \/ HandlerReturns(s)
  \/ AgentMoves
  \/ \E r \in late : LateResult(r)
  \/ StreamBreaks
  \/ AgentTerminates
  \/ AgentCrashes
  \/ ControlPlaneAlone

\* Both programs are scheduled, sleeps end, the driver returns, and a stream that
\* carries anything carries it on.  Nothing makes the network answer: a dial, a
\* heartbeat or a result may be out for ever unless its context is cancelled, a
\* stream that broke may never be seen to have, on either side, and faults need
\* not happen; neither need a caller's context ever end.
TunnelFairness ==
  /\ \A s \in Session :
       /\ WF_tunnelVars(HandlerWrites(s))
       /\ WF_tunnelVars(HandlerReturns(s))
  /\ WF_tunnelVars(AgentConnects)
  /\ WF_tunnelVars(AgentDialFails /\ ~ctxLive)
  /\ WF_tunnelVars(AgentReceives)
  /\ WF_tunnelVars(AgentStreamEnds /\ (broken => ~sessionLive))
  /\ WF_tunnelVars(AgentSessionEnds)
  /\ WF_tunnelVars(AgentHeartbeat /\ ~sessionLive)
  /\ WF_tunnelVars(AgentSubmits /\ ~sessionLive)
  /\ WF_tunnelVars((Edge!HeartbeatTick \/ Edge!HeartbeatStops) /\ AgentAlone)
  /\ WF_tunnelVars((Edge!Execute \/ Edge!recordQueryAudit) /\ AgentAlone)
  /\ WF_tunnelVars((Edge!SleepEnds \/ Edge!SleepInterrupted) /\ AgentAlone)
  /\ \A c \in Call :
       /\ WF_tunnelVars((ReceiveResult(c) \/ ReceiveClosed(c)) /\ ControlPlaneAlone)
       /\ WF_tunnelVars(CancelCall(c) /\ ControlPlaneAlone)
       /\ WF_tunnelVars(AnswerWaiter(c) /\ ControlPlaneAlone)

TunnelSpec == TunnelInit /\ [][TunnelNext]_tunnelVars
FairTunnelSpec == TunnelSpec /\ TunnelFairness

-----------------------------------------------------------------------------
(* Properties.                                                             *)

\* A command reaches a database at most once, however often the agent
\* reconnects or dies, and never when its caller was refused.
ExecutedAtMostOnce ==
  \A c \in Call : /\ executed[c] <= 1
                  /\ outcome[c] \in Refusals => executed[c] = 0

\* Rows reach a caller only from a query that ran and that was handed to the
\* audit log on the agent's host.
AnswerIsAudited ==
  \A c \in Call : outcome[c] = "result" /\ Kind[c] = "execute_query" =>
     executed[c] = 1 /\ c \in audits

\* The network leaves the agent without an answer for good: a dial, a heartbeat
\* or a result that neither succeeds nor fails, or a broken stream that nobody
\* notices.  None of them has a deadline, so nothing in the code ends this.
Hangs ==
  \/ <>[](run = "dialing")
  \/ <>[](beat = "sending")
  \/ <>[](recv = "submitting")
  \/ <>[]broken

\* A caller whose context has no deadline still returns: whatever is lost on
\* the way, the agent gives the session up and dials again, and the new
\* session closes the one the caller waits on.  It takes a request that hangs
\* for ever to keep it waiting.
CallersReturn ==
  \/ Hangs
  \/ \A c \in Call :
       pc[c] = "waiting" ~> (pc[c] = "returned" \/ run = "stopped")

\* A session the manager would route to, read and kept alive by the agent.
Online ==
  /\ run = "session" /\ sessionLive /\ ~broken
  /\ beat # "done" /\ recv # "done"
  /\ conn # None /\ isActiveLocked(conn)
  /\ byToken[AgentToken] = conn

\* An agent that is not stopped ends up connected for good once the faults
\* cease: no stale session, late result or half-dead stream keeps it away, only
\* a request that hangs for ever.
AgentComesBack == Hangs \/ <>[](Online \/ run = "stopped")
=============================================================================
