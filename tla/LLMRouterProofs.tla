-------------------------- MODULE LLMRouterProofs --------------------------
(* Safety of the circuit breakers, for every number of concurrent requests, *)
(* every list of providers, every threshold and every open interval.        *)
EXTENDS LLMRouter, TLAPS

\* A request is always at a provider of the list.
LEMMA AtProvider ==
  ASSUME TypeOK, NEW r \in Request
  PROVE At(r) \in Provider
  BY RouterAssumption DEF TypeOK, At, Provider

\* The initial state satisfies the invariant.
LEMMA InitRouterInv == Init => RouterInv
<1> SUFFICES ASSUME Init PROVE RouterInv
  OBVIOUS
<1> USE RouterAssumption DEF Init
<1>1. TypeOK
  <2>1. 0 \in 0 .. Threshold - 1 /\ 0 \in 0 .. OpenInterval /\ 0 \in 0 .. Threshold
        /\ 1 \in 1 .. Len(Candidates)
    OBVIOUS
  <2> QED
    BY <2>1 DEF TypeOK
<1>2. ClosedIffFewFailures /\ CountInv /\ ProbeIsOutstanding
  BY DEF ClosedIffFewFailures, CountInv, ProbeIsOutstanding
<1> QED
  BY <1>1, <1>2 DEF RouterInv

\* Failing over moves a request on or ends it; it never starts a call.
LEMMA FailOverType ==
  ASSUME TypeOK, NEW r \in Request, FailOver(r)
  PROVE /\ phase' \in [Request -> {"idle", "asking", "calling"}]
        /\ pos' \in [Request -> 1 .. Len(Candidates)]
        /\ expired' \subseteq Request
        /\ phase'[r] # "calling"
        /\ \A q \in Request \ {r} : phase'[q] = phase[q] /\ pos'[q] = pos[q]
<1> USE DEF TypeOK
<1>0. Len(Candidates) \in Nat
  BY RouterAssumption
<1>1. CASE pos[r] < Len(Candidates)
  <2>1. pos[r] + 1 \in 1 .. Len(Candidates)
    BY <1>0, <1>1
  <2>2. pos' = [pos EXCEPT ![r] = pos[r] + 1] /\ UNCHANGED expired
        /\ phase' = [phase EXCEPT ![r] = "asking"]
    BY <1>1 DEF FailOver
  <2> QED
    BY <2>1, <2>2
<1>2. CASE ~(pos[r] < Len(Candidates))
  BY <1>2 DEF FailOver
<1> QED
  BY <1>1, <1>2

\* A request that leaves its breaker alone cannot take the probe away: only
\* requests that are not calling move, or the breakers stay as they are.
LEMMA ProbeKept ==
  ASSUME RouterInv, NEW r \in Request, phase[r] # "calling",
         \A q \in Request \ {r} : phase'[q] = phase[q] /\ pos'[q] = pos[q],
         UNCHANGED <<state, probing>>
  PROVE ProbeIsOutstanding'
<1> SUFFICES ASSUME NEW p \in probing'
             PROVE state'[p] = "half_open"
                   /\ \E q \in Request : phase'[q] = "calling" /\ Candidates[pos'[q]] = p
  BY DEF ProbeIsOutstanding, At
<1>1. PICK q \in Request : phase[q] = "calling" /\ Candidates[pos[q]] = p
  BY DEF RouterInv, ProbeIsOutstanding, At
<1>2. q # r
  BY <1>1
<1> QED
  BY <1>1, <1>2 DEF RouterInv, ProbeIsOutstanding

\* A new completion.
LEMMA StartInv ==
  ASSUME RouterInv, NEW r \in Request, Start(r)
  PROVE RouterInv'
<1> USE RouterAssumption DEF RouterInv, Start, breakerVars
<1>1. TypeOK'
  <2>1. 1 \in 1 .. Len(Candidates)
    OBVIOUS
  <2> QED
    BY <2>1 DEF TypeOK
<1>2. ClosedIffFewFailures' /\ CountInv'
  BY DEF ClosedIffFewFailures, CountInv
<1>3. ProbeIsOutstanding'
  BY ProbeKept DEF TypeOK
<1> QED
  BY <1>1, <1>2, <1>3

\* A provider passed over because its breaker refuses.
LEMMA SkipInv ==
  ASSUME RouterInv, NEW r \in Request, Skip(r)
  PROVE RouterInv'
<1> USE RouterAssumption DEF RouterInv, Skip, breakerVars
<1>1. TypeOK'
  BY FailOverType DEF TypeOK
<1>2. ClosedIffFewFailures' /\ CountInv'
  BY DEF ClosedIffFewFailures, CountInv
<1>3. ProbeIsOutstanding'
  BY ProbeKept, FailOverType
<1> QED
  BY <1>1, <1>2, <1>3

\* A call let through: it may become the probe, and then it is outstanding.
LEMMA AdmitInv ==
  ASSUME RouterInv, NEW r \in Request, Admit(r)
  PROVE RouterInv'
<1> DEFINE p == At(r)
<1>0. p \in Provider
  BY AtProvider DEF RouterInv
<1>a. state \in [Provider -> {"closed", "open", "half_open"}] /\ probing \subseteq Provider
      /\ phase \in [Request -> {"idle", "asking", "calling"}]
  BY DEF RouterInv, TypeOK
<1>1. TypeOK'
  BY <1>0 DEF RouterInv, TypeOK, Admit, beforeCall
<1>2. ClosedIffFewFailures' /\ CountInv'
  BY <1>0, <1>a DEF RouterInv, Admit, beforeCall, ClosedIffFewFailures, CountInv
<1>3. ProbeIsOutstanding'
  <2> SUFFICES ASSUME NEW b \in probing'
               PROVE state'[b] = "half_open"
                     /\ \E q \in Request : phase'[q] = "calling" /\ Candidates[pos'[q]] = b
    BY DEF ProbeIsOutstanding, At
  <2>1. CASE b = p /\ state[p] # "closed"
    <3>1. phase'[r] = "calling" /\ Candidates[pos'[r]] = p
      BY <1>a DEF Admit, At
    <3>2. state'[p] = "half_open"
      BY <1>0, <1>a, <2>1 DEF Admit, beforeCall
    <3> QED
      BY <2>1, <3>1, <3>2
  <2>2. CASE ~(b = p /\ state[p] # "closed")
    <3>1. b \in probing
      BY <2>2 DEF Admit, beforeCall
    <3>2. PICK q \in Request : phase[q] = "calling" /\ Candidates[pos[q]] = b
      BY <3>1 DEF RouterInv, ProbeIsOutstanding, At
    <3>3. phase'[q] = "calling" /\ pos'[q] = pos[q]
      BY <3>2, <1>a DEF Admit
    <3>4. state'[b] = "half_open"
      BY <3>1, <1>0, <1>a, <2>2 DEF RouterInv, ProbeIsOutstanding, Admit, beforeCall
    <3> QED
      BY <3>2, <3>3, <3>4
  <2> QED
    BY <2>1, <2>2
<1> QED
  BY <1>1, <1>2, <1>3 DEF RouterInv

\* afterCall keeps the breakers in range, keeps count of the streak, and gives
\* up the half-open slot of the provider it reports on.
LEMMA AfterCallBreaker ==
  ASSUME RouterInv, NEW r \in Request,
         NEW res \in {"ok", "permanent", "cancelled", "transient"},
         Return(r, res)
  PROVE /\ state' \in [Provider -> {"closed", "open", "half_open"}]
        /\ fails' \in [Provider -> 0 .. Threshold - 1]
        /\ remaining' \in [Provider -> 0 .. OpenInterval]
        /\ streak' \in [Provider -> 0 .. Threshold]
        /\ probing' = probing \ {At(r)}
        /\ \A b \in Provider \ {At(r)} : state'[b] = state[b]
        /\ ClosedIffFewFailures'
        /\ CountInv'
<1> DEFINE p == At(r)
<1> USE RouterAssumption
<1>0. p \in Provider
  BY AtProvider DEF RouterInv
<1>a. /\ state \in [Provider -> {"closed", "open", "half_open"}]
      /\ fails \in [Provider -> 0 .. Threshold - 1]
      /\ remaining \in [Provider -> 0 .. OpenInterval]
      /\ streak \in [Provider -> 0 .. Threshold]
  BY DEF RouterInv, TypeOK
<1>b. /\ \A b \in Provider : state[b] = "closed" <=> streak[b] < Threshold
      /\ \A b \in Provider : state[b] = "closed" => fails[b] = streak[b]
      /\ p \in probing => state[p] = "half_open"
  BY DEF RouterInv, ClosedIffFewFailures, CountInv, ProbeIsOutstanding
<1>1. CASE res \in {"ok", "permanent"}
  <2>1. closeBreaker(p) /\ streak' = [streak EXCEPT ![p] = 0]
    BY <1>1 DEF Return, afterCall
  <2> QED
    BY <1>0, <1>a, <1>b, <2>1 DEF closeBreaker, ClosedIffFewFailures, CountInv
<1>2. CASE res = "cancelled"
  <2>1. cancelled(p) /\ streak' = [streak EXCEPT ![p] = streak[p]]
    BY <1>2 DEF Return, afterCall
  <2>2. streak' = streak
    BY <2>1, <1>0, <1>a
  <2> QED
    BY <1>0, <1>a, <1>b, <2>1, <2>2 DEF cancelled, ClosedIffFewFailures, CountInv
<1>3. CASE res = "transient"
  <2>1. failed(p) /\ streak' = [streak EXCEPT ![p] =
                                  IF streak[p] < Threshold THEN streak[p] + 1
                                  ELSE streak[p]]
    BY <1>3 DEF Return, afterCall
  <2>2. CASE state[p] = "half_open" \/ TooMany(p)
    <3>1. tripLocked(p)
      BY <2>1, <2>2 DEF failed
    <3>2. streak[p] < Threshold => streak[p] + 1 = Threshold
      BY <1>0, <1>a, <1>b, <2>2 DEF TooMany
    <3> QED
      BY <1>0, <1>a, <1>b, <2>1, <3>1, <3>2 DEF tripLocked, ClosedIffFewFailures, CountInv
  <2>3. CASE ~(state[p] = "half_open" \/ TooMany(p))
    <3>1. fails' = [fails EXCEPT ![p] = fails[p] + 1]
          /\ UNCHANGED <<state, remaining, probing>>
      BY <2>1, <2>3 DEF failed
    <3>2. fails[p] + 1 \in 0 .. Threshold - 1
      BY <1>0, <1>a, <2>3 DEF TooMany
    <3>3. p \notin probing
      BY <1>b, <2>3
    <3>4. ClosedIffFewFailures' /\ CountInv'
      BY <1>0, <1>a, <1>b, <2>1, <3>1, <3>2 DEF ClosedIffFewFailures, CountInv
    <3> QED
      BY <1>0, <1>a, <2>1, <3>1, <3>2, <3>3, <3>4
  <2> QED
    BY <2>2, <2>3
<1> QED
  BY <1>1, <1>2, <1>3

\* A call comes back.
LEMMA ReturnInv ==
  ASSUME RouterInv, NEW r \in Request,
         NEW res \in {"ok", "permanent", "cancelled", "transient"},
         Return(r, res)
  PROVE RouterInv'
<1>1. /\ phase' \in [Request -> {"idle", "asking", "calling"}]
      /\ pos' \in [Request -> 1 .. Len(Candidates)]
      /\ expired' \subseteq Request
      /\ \A q \in Request \ {r} : phase'[q] = phase[q] /\ pos'[q] = pos[q]
  <2>1. CASE res = "transient"
    <3>1. FailOver(r) /\ TypeOK
      BY <2>1 DEF Return, RouterInv
    <3> QED
      BY <3>1, FailOverType
  <2>2. CASE res # "transient"
    BY <2>2 DEF Return, RouterInv, TypeOK
  <2> QED
    BY <2>1, <2>2
<1>2. /\ probing' = probing \ {At(r)}
      /\ \A b \in Provider \ {At(r)} : state'[b] = state[b]
  BY AfterCallBreaker
<1>3. TypeOK'
  <2>1. healthy' = healthy
    BY DEF Return
  <2> QED
    BY <1>1, <1>2, <2>1, AfterCallBreaker DEF RouterInv, TypeOK
<1>4. ProbeIsOutstanding'
  <2> SUFFICES ASSUME NEW b \in probing'
               PROVE state'[b] = "half_open"
                     /\ \E q \in Request : phase'[q] = "calling" /\ Candidates[pos'[q]] = b
    BY DEF ProbeIsOutstanding, At
  <2>1. b \in probing /\ b # At(r) /\ b \in Provider
    BY <1>2 DEF RouterInv, TypeOK
  <2>2. PICK q \in Request : phase[q] = "calling" /\ Candidates[pos[q]] = b
    BY <2>1 DEF RouterInv, ProbeIsOutstanding, At
  <2>3. q # r
    BY <2>1, <2>2 DEF At
  <2> QED
    BY <1>1, <1>2, <2>1, <2>2, <2>3 DEF RouterInv, ProbeIsOutstanding
<1> QED
  BY <1>3, <1>4, AfterCallBreaker DEF RouterInv

\* Deadlines, the clock, and a provider getting well.
LEMMA EnvironmentInv ==
  ASSUME RouterInv, (\E r \in Request : Expire(r)) \/ Tick \/ (\E p \in Provider : Heal(p))
  PROVE RouterInv'
<1> USE RouterAssumption
<1>1. TypeOK'
  <2>1. CASE Tick
    <3>1. \A p \in Provider : (IF remaining[p] > 0 THEN remaining[p] - 1 ELSE 0)
                                 \in 0 .. OpenInterval
      BY DEF RouterInv, TypeOK
    <3>2. remaining' \in [Provider -> 0 .. OpenInterval]
      BY <2>1, <3>1 DEF Tick
    <3> QED
      BY <2>1, <3>2 DEF Tick, RouterInv, TypeOK, requestVars
  <2>2. CASE (\E r \in Request : Expire(r)) \/ (\E p \in Provider : Heal(p))
    BY <2>2 DEF Expire, Heal, RouterInv, TypeOK, requestVars, breakerVars
  <2> QED
    BY <2>1, <2>2
<1>2. UNCHANGED <<state, fails, probing, phase, pos, streak>>
  BY DEF Tick, Expire, Heal, requestVars, breakerVars
<1>3. ClosedIffFewFailures' /\ CountInv' /\ ProbeIsOutstanding'
  BY <1>2 DEF RouterInv, ClosedIffFewFailures, CountInv, ProbeIsOutstanding, At
<1> QED
  BY <1>1, <1>3 DEF RouterInv

\* The inductive invariant: the breaker is closed exactly while the streak of
\* transient failures is short, which needs CountInv (consecutiveFails is that
\* streak while closed), and a taken half-open slot belongs to a live call.
THEOREM RouterInvariance == Spec => []RouterInv
<1>1. Init => RouterInv
  BY InitRouterInv
<1>2. RouterInv /\ [Next]_vars => RouterInv'
  <2> SUFFICES ASSUME RouterInv, [Next]_vars
               PROVE RouterInv'
    OBVIOUS
  <2>1. CASE UNCHANGED vars
    BY <2>1 DEF vars, breakerVars, requestVars, RouterInv, TypeOK,
      ClosedIffFewFailures, CountInv, ProbeIsOutstanding, At
  <2>2. CASE Next
    BY <2>2, StartInv, SkipInv, AdmitInv, ReturnInv, EnvironmentInv
    DEF Next, RequestStep
  <2> QED
    BY <2>1, <2>2
<1> QED
  BY <1>1, <1>2, PTL DEF Spec

\* The variables of router and breakers keep their types.
THEOREM RouterTypeCorrect == Spec => []TypeOK
<1>1. RouterInv => TypeOK
  BY DEF RouterInv
<1> QED
  BY <1>1, RouterInvariance, PTL

\* A provider is cut off exactly when its last Threshold reports were
\* transient failures.
THEOREM BreakerFollowsStreak == Spec => []ClosedIffFewFailures
<1>1. RouterInv => ClosedIffFewFailures
  BY DEF RouterInv
<1> QED
  BY <1>1, RouterInvariance, PTL

\* The half-open slot is never lost.
THEOREM ProbeNeverLost == Spec => []ProbeIsOutstanding
<1>1. RouterInv => ProbeIsOutstanding
  BY DEF RouterInv
<1> QED
  BY <1>1, RouterInvariance, PTL
=============================================================================
