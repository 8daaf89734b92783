----------------------------- MODULE EdgeAgent -----------------------------
(***************************************************************************)
(* One edge-agent process: AgentService of edgeagent/controller/agent.go.  *)
(*                                                                         *)
(* Run dials the control plane for ever, sleeping between attempts.  While *)
(* a stream is open two goroutines share the session's context: one sends  *)
(* heartbeats, the other receives commands and handles them one at a time. *)
(* Either one returning cancels the context, which has to bring the other  *)
(* one down too, because Run waits for both before it dials again.         *)
(*                                                                         *)
(* What the control plane and the network do is left open here: every      *)
(* request may succeed or fail.  AgentTunnel closes the loop.              *)
(***************************************************************************)
EXTENDS Integers

CONSTANTS
  Command,        \* commands that can arrive
  Kind,           \* Kind[c]: "ping", "execute_query", ...
  ReconnectBase,
  ReconnectMax,
  MaxRefusals,    \* bound: dials refused in a row
  None

ASSUME CommandAssumption == None \notin Command
ASSUME ReconnectAssumption ==
  /\ ReconnectBase \in Nat \ {0}
  /\ ReconnectMax \in Nat
  /\ ReconnectBase <= ReconnectMax
  /\ MaxRefusals \in Nat

QueryKind == "execute_query"
PingKind == "ping"

VARIABLES
  run,          \* where Run stands
  ctxLive,      \* the process context: until SIGTERM
  sessionLive,  \* sessionCtx of the current runSession
  connected,    \* what the last runSession reported
  backoff,
  delay,        \* the jittered sleep
  beat,         \* the heartbeat goroutine
  recv,         \* the receive goroutine
  command,      \* the command being handled
  executed,     \* executed[c]: times c was handed to the database
  audits,       \* commands for which LogQueryEvent was called
  refusals      \* dials refused in a row, for MaxRefusals

loopVars == <<connected, backoff, delay, refusals>>
dbVars == <<executed, audits>>
agentVars == <<run, ctxLive, sessionLive, loopVars, beat, recv, command, dbVars>>

\* A process that has just started; the database and the audit file stay.
Boot ==
  /\ run' = "dialing"
  /\ ctxLive' = TRUE
  /\ sessionLive' = FALSE
  /\ connected' = FALSE
  /\ backoff' = ReconnectBase
  /\ delay' = 0
  /\ beat' = "done"
  /\ recv' = "done"
  /\ command' = None
  /\ refusals' = 0

AgentInit ==
  /\ run = "dialing"
  /\ ctxLive = TRUE
  /\ sessionLive = FALSE
  /\ connected = FALSE
  /\ backoff = ReconnectBase
  /\ delay = 0
  /\ beat = "done"
  /\ recv = "done"
  /\ command = None
  /\ executed = [c \in Command |-> 0]
  /\ audits = {}
  /\ refusals = 0

-----------------------------------------------------------------------------
(* Run.                                                                    *)

\* The delays jitter may draw for a backoff.
jitter(base) ==
  IF base \div 5 = 0 THEN {base} ELSE base .. base + base \div 5 - 1

\* Fault: Run does not look at its context.
AfterSession_IgnoresContext(wasConnected) ==
  /\ run' = "sleeping"
  /\ connected' = wasConnected
  /\ backoff' = IF wasConnected THEN ReconnectBase ELSE backoff
  /\ delay' \in jitter(backoff')
  /\ refusals' = IF wasConnected THEN 0 ELSE refusals + 1

\* What Run does with the return of runSession.
AfterSession(wasConnected) ==
  IF ctxLive
    THEN /\ run' = "sleeping"
         /\ connected' = wasConnected
         /\ backoff' = IF wasConnected THEN ReconnectBase ELSE backoff
         /\ delay' \in jitter(backoff')
         /\ refusals' = IF wasConnected THEN 0 ELSE refusals + 1
    ELSE /\ run' = "stopped"
         /\ UNCHANGED loopVars

OpenFails ==
  /\ run = "dialing"
  /\ refusals < MaxRefusals
  /\ AfterSession(FALSE)
  /\ UNCHANGED <<ctxLive, sessionLive, beat, recv, command, dbVars>>

\* The first frame arrived; both goroutines start.
OpenSucceeds ==
  /\ run = "dialing"
  /\ run' = "session"
  /\ sessionLive' = ctxLive
  /\ beat' = "sending"
  /\ recv' = "receiving"
  /\ UNCHANGED <<ctxLive, loopVars, command, dbVars>>

\* group.Wait: both goroutines have returned.
SessionOver == beat = "done" /\ recv = "done"

SessionEnds ==
  /\ run = "session"
  /\ SessionOver
  /\ AfterSession(TRUE)
  /\ UNCHANGED <<ctxLive, sessionLive, beat, recv, command, dbVars>>

NextBackoff ==
  IF ~connected /\ backoff < ReconnectMax
    THEN IF 2 * backoff > ReconnectMax THEN ReconnectMax ELSE 2 * backoff
    ELSE backoff

SleepEnds ==
  /\ run = "sleeping"
  /\ run' = "dialing"
  /\ backoff' = NextBackoff
  /\ UNCHANGED <<ctxLive, sessionLive, connected, delay, refusals, beat, recv,
                 command, dbVars>>

SleepInterrupted ==
  /\ run = "sleeping"
  /\ ~ctxLive
  /\ run' = "stopped"
  /\ UNCHANGED <<ctxLive, sessionLive, loopVars, beat, recv, command, dbVars>>

-----------------------------------------------------------------------------
(* The heartbeat goroutine.                                                *)

\* Fault: only the errgroup's context is cancelled, not the stream's.
CancelSession_GroupOnly == UNCHANGED sessionLive

\* defer cancel().
CancelSession == sessionLive' = FALSE

HeartbeatOK ==
  /\ beat = "sending"
  /\ sessionLive
  /\ beat' = "waiting"
  /\ UNCHANGED <<run, ctxLive, sessionLive, loopVars, recv, command, dbVars>>

\* An error, or the context is done: the goroutine returns.
HeartbeatFails ==
  /\ beat = "sending"
  /\ beat' = "done"
  /\ CancelSession
  /\ UNCHANGED <<run, ctxLive, loopVars, recv, command, dbVars>>

HeartbeatTick ==
  /\ beat = "waiting"
  /\ sessionLive
  /\ beat' = "sending"
  /\ UNCHANGED <<run, ctxLive, sessionLive, loopVars, recv, command, dbVars>>

HeartbeatStops ==
  /\ beat = "waiting"
  /\ ~sessionLive
  /\ beat' = "done"
  /\ UNCHANGED <<run, ctxLive, sessionLive, loopVars, recv, command, dbVars>>

-----------------------------------------------------------------------------
(* The receive goroutine and handleCommand.                                *)

\* Fault: a query goes straight to the answer.
AfterExecute_NoAudit(c) == "submitting"

\* A query is audited before it is answered, whatever became of it.
AfterExecute(c) == IF Kind[c] = QueryKind THEN "auditing" ELSE "submitting"

\* A frame without a payload is the acknowledgement of the dial.
ReceiveAck ==
  /\ recv = "receiving"
  /\ UNCHANGED agentVars

Receive(c) ==
  /\ recv = "receiving"
  /\ command' = c
  /\ recv' = IF Kind[c] = PingKind THEN "submitting" ELSE "executing"
  /\ UNCHANGED <<run, ctxLive, sessionLive, loopVars, beat, dbVars>>

\* The stream ended, failed, or its context was cancelled.
ReceiveEnds ==
  /\ recv = "receiving"
  /\ recv' = "done"
  /\ CancelSession
  /\ UNCHANGED <<run, ctxLive, loopVars, beat, command, dbVars>>

\* ExecuteQuery, IntrospectSchema or ConfigureDatabase returns, with a result
\* or with an error that becomes the result.
Execute ==
  /\ recv = "executing"
  /\ executed' = [executed EXCEPT ![command] = @ + 1]
  /\ recv' = AfterExecute(command)
  /\ UNCHANGED <<run, ctxLive, sessionLive, loopVars, beat, command, audits>>

\* That LogQueryEvent failed is logged and ignored.
recordQueryAudit ==
  /\ recv = "auditing"
  /\ audits' = audits \cup {command}
  /\ recv' = "submitting"
  /\ UNCHANGED <<run, ctxLive, sessionLive, loopVars, beat, command, executed>>

SubmitOK ==
  /\ recv = "submitting"
  /\ sessionLive
  /\ recv' = "receiving"
  /\ command' = None
  /\ UNCHANGED <<run, ctxLive, sessionLive, loopVars, beat, dbVars>>

\* Fault: the error is logged and the next command is awaited.
SubmitFails_GoesOn ==
  /\ recv = "submitting"
  /\ recv' = "receiving"
  /\ command' = None
  /\ UNCHANGED <<run, ctxLive, sessionLive, loopVars, beat, dbVars>>

\* The request failed or was refused, a row value has no encoding, or the
\* context is done: the goroutine returns.
SubmitFails ==
  /\ recv = "submitting"
  /\ recv' = "done"
  /\ command' = None
  /\ CancelSession
  /\ UNCHANGED <<run, ctxLive, loopVars, beat, dbVars>>

-----------------------------------------------------------------------------
\* SIGTERM: the process context ends, and the session's with it.
Terminate ==
  /\ ctxLive
  /\ run # "stopped"
  /\ ctxLive' = FALSE
  /\ sessionLive' = FALSE
  /\ UNCHANGED <<run, loopVars, beat, recv, command, dbVars>>

\* The process dies and its supervisor starts it again.
Crash ==
  /\ run # "stopped"
  /\ Boot
  /\ UNCHANGED dbVars

-----------------------------------------------------------------------------
HeartbeatStep == HeartbeatOK \/ HeartbeatFails \/ HeartbeatTick \/ HeartbeatStops
HandlerStep == Execute \/ recordQueryAudit \/ SubmitOK \/ SubmitFails
LoopStep == SessionEnds \/ SleepEnds \/ SleepInterrupted

\* A command id is fresh, so a command arrives at most once.
AgentNext ==
  \/ OpenFails
  \/ OpenSucceeds
  \/ LoopStep
  \/ HeartbeatStep
  \/ ReceiveAck
  \/ \E c \in Command : executed[c] = 0 /\ Receive(c)
  \/ ReceiveEnds
  \/ HandlerStep
  \/ Terminate
  \/ Crash

\* The process is scheduled, sleeps end and the driver returns.  A request has no
\* deadline: it is sure to end only once its context is cancelled, as is a Receive.
AgentFairness ==
  /\ WF_agentVars((OpenFails \/ OpenSucceeds) /\ ~ctxLive)
  /\ WF_agentVars(LoopStep)
  /\ WF_agentVars(HeartbeatStep /\ (beat = "sending" => ~sessionLive))
  /\ WF_agentVars(ReceiveEnds /\ ~sessionLive)
  /\ WF_agentVars(HandlerStep /\ (recv = "submitting" => ~sessionLive))

AgentSpec == AgentInit /\ [][AgentNext]_agentVars
FairAgentSpec == AgentSpec /\ AgentFairness

-----------------------------------------------------------------------------
(* Properties.                                                             *)

\* Every variable keeps its type.
AgentTypeOK ==
  /\ run \in {"dialing", "session", "sleeping", "stopped"}
  /\ ctxLive \in BOOLEAN
  /\ sessionLive \in BOOLEAN
  /\ connected \in BOOLEAN
  /\ backoff \in ReconnectBase .. ReconnectMax
  /\ delay \in Nat
  /\ beat \in {"sending", "waiting", "done"}
  /\ recv \in {"receiving", "executing", "auditing", "submitting", "done"}
  /\ command \in Command \cup {None}
  /\ executed \in [Command -> Nat]
  /\ audits \subseteq Command
  /\ refusals \in 0 .. MaxRefusals

\* The answer to a query is never on its way before the query was handed to the
\* local audit log, whether it succeeded, failed or was refused by the guard.
AuditBeforeAnswer ==
  recv = "submitting" /\ Kind[command] = QueryKind => command \in audits

\* Goroutines of two sessions never overlap: while Run sleeps, dials or has
\* returned, nothing of the last session still runs.
NoStragglers ==
  run # "session" => beat = "done" /\ recv = "done"

\* When one of the two goroutines has returned the session comes to its end:
\* the other one is not left blocked on a stream nobody will write to.
OneEndsBoth ==
  (run = "session" /\ (beat = "done" \/ recv = "done")) ~> run # "session"

\* What makes the above inductive.
Handling == recv \in {"executing", "auditing", "submitting"} => command \in Command
AgentInv == AgentTypeOK /\ Handling /\ AuditBeforeAnswer /\ NoStragglers

\* SIGTERM stops the agent wherever it is.
TerminateStops == ~ctxLive ~> (run = "stopped" \/ ctxLive)
=============================================================================
