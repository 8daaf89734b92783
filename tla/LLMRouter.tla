----------------------------- MODULE LLMRouter -----------------------------
(***************************************************************************)
(* The router that spreads completions over LLM providers and the circuit  *)
(* breaker it keeps for each of them (gateway/llm/router.go, breaker.go).  *)
(*                                                                         *)
(* Requests run concurrently.  A breaker is locked in beforeCall and again *)
(* in afterCall; the provider is called in between, so a breaker changes   *)
(* hands many times while a call is under way, and hears of calls that it  *)
(* admitted in an earlier state.  Time is what is left of each open        *)
(* interval.                                                               *)
(***************************************************************************)
EXTENDS LLMProviders

CONSTANTS
  Request,        \* goroutines in Router.Complete, over and over
  Candidates,     \* orderedProviders(): the default one, then the others
  Body,           \* the request they make
  Threshold,      \* breakerFailureThreshold
  OpenInterval    \* breakerOpenInterval, in ticks

Provider == {Candidates[k] : k \in 1 .. Len(Candidates)}

ASSUME RouterAssumption ==
  /\ Candidates \in Seq(Provider)
  /\ Len(Candidates) > 0
  /\ Threshold \in Nat \ {0}
  /\ OpenInterval \in Nat \ {0}

VARIABLES
  state,          \* state[p] of p's breaker
  fails,          \* consecutiveFails
  remaining,      \* openUntil - now, 0 once it has passed
  probing,        \* breakers with halfOpenInFlight set
  phase,          \* phase[r]: "idle", "asking" a breaker or "calling"
  pos,            \* pos[r]: the candidate it is at
  expired,        \* requests whose deadline has passed
  healthy,        \* providers that are past their troubles
  streak          \* transient failures of p since its last other answer
                  \* (history, counted up to Threshold)

breakerVars == <<state, fails, remaining, probing>>
requestVars == <<phase, pos, expired>>
vars == <<breakerVars, requestVars, healthy, streak>>

At(r) == Candidates[pos[r]]

Init ==
  /\ state = [p \in Provider |-> "closed"]
  /\ fails = [p \in Provider |-> 0]
  /\ remaining = [p \in Provider |-> 0]
  /\ probing = {}
  /\ phase = [r \in Request |-> "idle"]
  /\ pos = [r \in Request |-> 1]
  /\ expired = {}
  /\ healthy = {}
  /\ streak = [p \in Provider |-> 0]

-----------------------------------------------------------------------------
(* The breaker.                                                            *)

\* beforeCall returns ErrCircuitOpen.
Refuses(p) ==
  \/ state[p] = "open" /\ remaining[p] > 0
  \/ state[p] = "half_open" /\ p \in probing

\* beforeCall lets the call through: the first one after an open interval is
\* the probe.
beforeCall(p) ==
  /\ ~Refuses(p)
  /\ state' = [state EXCEPT ![p] = IF @ = "open" THEN "half_open" ELSE @]
  /\ probing' = IF state[p] = "closed" THEN probing ELSE probing \cup {p}
  /\ UNCHANGED <<fails, remaining>>

tripLocked(p) ==
  /\ state' = [state EXCEPT ![p] = "open"]
  /\ fails' = [fails EXCEPT ![p] = 0]
  /\ remaining' = [remaining EXCEPT ![p] = OpenInterval]
  /\ probing' = probing \ {p}

\* An answer, or an error that says nothing about the provider's health.
closeBreaker(p) ==
  /\ state' = [state EXCEPT ![p] = "closed"]
  /\ fails' = [fails EXCEPT ![p] = 0]
  /\ remaining' = [remaining EXCEPT ![p] = 0]
  /\ probing' = probing \ {p}

\* Fault: a cancelled probe keeps the half-open slot.
cancelled_KeepsSlot(p) == UNCHANGED breakerVars

\* The caller went away: the half-open slot is free again.
cancelled(p) ==
  /\ probing' = IF state[p] = "half_open" THEN probing \ {p} ELSE probing
  /\ UNCHANGED <<state, fails, remaining>>

\* Fault: one failure too many is tolerated.
TooMany_OffByOne(p) == fails[p] >= Threshold

\* With this failure the breaker has seen Threshold of them.
TooMany(p) == fails[p] + 1 >= Threshold

failed(p) ==
  IF state[p] = "half_open" \/ TooMany(p)
    THEN tripLocked(p)
    ELSE /\ fails' = [fails EXCEPT ![p] = @ + 1]
         /\ UNCHANGED <<state, remaining, probing>>

afterCall(p, res) ==
  \/ res \in {"ok", "permanent"} /\ closeBreaker(p)
  \/ res = "cancelled" /\ cancelled(p)
  \/ res = "transient" /\ failed(p)

-----------------------------------------------------------------------------
(* Router.Complete.                                                        *)

Start(r) ==
  /\ phase[r] = "idle"
  /\ phase' = [phase EXCEPT ![r] = "asking"]
  /\ pos' = [pos EXCEPT ![r] = 1]
  /\ expired' = expired \ {r}
  /\ UNCHANGED <<breakerVars, healthy, streak>>

\* The next candidate, or an UnavailableError.
FailOver(r) ==
  /\ IF pos[r] < Len(Candidates)
       THEN /\ pos' = [pos EXCEPT ![r] = @ + 1]
            /\ phase' = [phase EXCEPT ![r] = "asking"]
       ELSE /\ phase' = [phase EXCEPT ![r] = "idle"]
            /\ UNCHANGED pos
  /\ UNCHANGED expired

Skip(r) ==
  /\ phase[r] = "asking"
  /\ Refuses(At(r))
  /\ FailOver(r)
  /\ UNCHANGED <<breakerVars, healthy, streak>>

Admit(r) ==
  /\ phase[r] = "asking"
  /\ beforeCall(At(r))
  /\ phase' = [phase EXCEPT ![r] = "calling"]
  /\ UNCHANGED <<pos, expired, healthy, streak>>

\* How an exchange can end.  A request whose deadline has passed gets nothing
\* else; a provider that is well is in time and has no trouble of its own.
Ends(late, well) ==
  LET tooLate == {"deadline", "slow_body"}
  IN IF late THEN tooLate
     ELSE IF well
       THEN Exchange \ (tooLate \cup {"too_many_requests", "server_error", "unreachable"})
     ELSE Exchange

\* What the router hears of it.  Without a model it makes up a permanent error.
Outcomes ==
  [p \in Provider, late \in BOOLEAN, well \in BOOLEAN |->
     IF ModelForProvider(Body, p) = "" THEN {"permanent"}
     ELSE {Complete(p, Body, x) : x \in Ends(late, well)}]

Results(r, p) == Outcomes[p, (r \in expired), (p \in healthy)]

\* The call returns: afterCall, then the answer, the error or the failover.
Return(r, res) ==
  LET p == At(r)
  IN /\ phase[r] = "calling"
     /\ res \in Results(r, p)
     /\ afterCall(p, res)
     /\ streak' = [streak EXCEPT ![p] =
                     CASE res = "transient" -> IF @ < Threshold THEN @ + 1 ELSE @
                       [] res = "cancelled" -> @
                       [] OTHER -> 0]
     /\ IF res = "transient"
          THEN FailOver(r)
          ELSE /\ phase' = [phase EXCEPT ![r] = "idle"]
               /\ UNCHANGED <<pos, expired>>
     /\ UNCHANGED healthy

\* The request's deadline passes while it waits for a provider.
Expire(r) ==
  /\ phase[r] = "calling"
  /\ r \notin expired
  /\ expired' = expired \cup {r}
  /\ UNCHANGED <<breakerVars, phase, pos, healthy, streak>>

Tick ==
  /\ \E p \in Provider : remaining[p] > 0
  /\ remaining' = [p \in Provider |-> IF remaining[p] > 0 THEN remaining[p] - 1
                                      ELSE 0]
  /\ UNCHANGED <<state, fails, probing, requestVars, healthy, streak>>

Heal(p) ==
  /\ p \notin healthy
  /\ healthy' = healthy \cup {p}
  /\ UNCHANGED <<breakerVars, requestVars, streak>>

-----------------------------------------------------------------------------
RequestStep(r) ==
  \/ Start(r)
  \/ Skip(r)
  \/ Admit(r)
  \/ \E res \in {"ok", "permanent", "cancelled", "transient"} : Return(r, res)

Next ==
  \/ \E r \in Request : RequestStep(r) \/ Expire(r)
  \/ Tick
  \/ \E p \in Provider : Heal(p)

\* Time passes, goroutines run and every call ends (the HTTP client gives it
\* up after 90 s).  Requests keep coming, and callers are not so impatient
\* that no call of the default provider is ever allowed to succeed.
Fairness ==
  /\ WF_vars(Tick)
  /\ \A r \in Request : WF_vars(RequestStep(r))
  /\ \A r \in Request : SF_vars(pos[r] = 1 /\ Return(r, "ok"))

Spec == Init /\ [][Next]_vars
FairSpec == Spec /\ Fairness

-----------------------------------------------------------------------------
(* Properties.                                                             *)

\* Every variable keeps its type.
TypeOK ==
  /\ state \in [Provider -> {"closed", "open", "half_open"}]
  /\ fails \in [Provider -> 0 .. Threshold - 1]
  /\ remaining \in [Provider -> 0 .. OpenInterval]
  /\ probing \subseteq Provider
  /\ phase \in [Request -> {"idle", "asking", "calling"}]
  /\ pos \in [Request -> 1 .. Len(Candidates)]
  /\ expired \subseteq Request
  /\ healthy \subseteq Provider
  /\ streak \in [Provider -> 0 .. Threshold]

\* The breaker is closed exactly while fewer than Threshold transient failures
\* have come in since the provider last answered, in whatever order the calls
\* of concurrent requests report back and whatever state they were made in.
ClosedIffFewFailures ==
  \A p \in Provider : state[p] = "closed" <=> streak[p] < Threshold

\* A half-open breaker that turns calls away waits for one that is really
\* under way: the slot can never be lost, which would cut the provider off
\* until the process restarts.
ProbeIsOutstanding ==
  \A p \in probing :
    state[p] = "half_open" /\ \E r \in Request : phase[r] = "calling" /\ At(r) = p

\* Once the default provider is well again its breaker closes: no interleaving
\* of late failures, cancelled probes and skipped requests keeps it out.
DefaultRecovers ==
  Candidates[1] \in healthy ~> state[Candidates[1]] = "closed"

\* What makes the safety properties inductive.
CountInv ==
  \A p \in Provider : state[p] = "closed" => fails[p] = streak[p]
RouterInv == TypeOK /\ ClosedIffFewFailures /\ ProbeIsOutstanding /\ CountInv
=============================================================================
