------------------------------ MODULE CommandRPC ------------------------------
(***************************************************************************)
(* What the session manager promises to Ping, ExecuteQuery,                *)
(* IntrospectSchema and ConfigureDatabase, without sessions, queues or     *)
(* channels: a call ends once and keeps its outcome; it may hand its       *)
(* command to an agent, at most once; a call that was refused never does;  *)
(* and an answer is an answer to a command that was handed over.  It does  *)
(* not promise that a call that failed was not, or will not be, executed.  *)
(***************************************************************************)
EXTENDS Naturals

CONSTANTS Call, Refusals, Failures, None

VARIABLES state, delivered, outcome

vars == <<state, delivered, outcome>>

Init ==
  /\ state = [c \in Call |-> "idle"]
  /\ delivered = [c \in Call |-> 0]
  /\ outcome = [c \in Call |-> None]

Begin(c) ==
  /\ state[c] = "idle"
  /\ state' = [state EXCEPT ![c] = "pending"]
  /\ UNCHANGED <<delivered, outcome>>

Refuse(c, o) ==
  /\ state[c] = "idle"
  /\ state' = [state EXCEPT ![c] = "done"]
  /\ outcome' = [outcome EXCEPT ![c] = o]
  /\ UNCHANGED delivered

\* The agent gets the command, possibly after the caller has given up.
Deliver(c) ==
  /\ delivered[c] = 0
  /\ state[c] # "idle"
  /\ outcome[c] \notin Refusals
  /\ delivered' = [delivered EXCEPT ![c] = 1]
  /\ UNCHANGED <<state, outcome>>

Answer(c) ==
  /\ state[c] = "pending"
  /\ delivered[c] > 0
  /\ state' = [state EXCEPT ![c] = "done"]
  /\ outcome' = [outcome EXCEPT ![c] = "result"]
  /\ UNCHANGED delivered

Fail(c, o) ==
  /\ state[c] = "pending"
  /\ state' = [state EXCEPT ![c] = "done"]
  /\ outcome' = [outcome EXCEPT ![c] = o]
  /\ UNCHANGED delivered

Next ==
  \E c \in Call :
    \/ Begin(c)
    \/ \E o \in Refusals : Refuse(c, o)
    \/ Deliver(c)
    \/ Answer(c)
    \/ \E o \in Failures : Fail(c, o)

Spec == Init /\ [][Next]_vars
=============================================================================
