-------------------------- MODULE EdgeAgentProofs --------------------------
(***************************************************************************)
(* Safety of one edge agent, for every set of commands and every backoff;  *)
(* then of the agent on its host (MySQLRuntime), for every set of texts,   *)
(* databases, values and deployments.  The two recursive functions of the  *)
(* host, the scanner's and Ulp, are shown to exist by induction, and the   *)
(* rest follows from their equations.                                      *)
(***************************************************************************)
EXTENDS MySQLRuntime, WellFoundedInduction, TLAPS

\* A draw of jitter is a natural number.
LEMMA JitterNat ==
  ASSUME NEW b \in Nat, NEW d \in jitter(b)
  PROVE d \in Nat
<1>1. b \div 5 \in Nat
  OBVIOUS
<1>2. CASE b \div 5 = 0
  BY <1>2 DEF jitter
<1>3. CASE b \div 5 # 0
  BY <1>1, <1>3 DEF jitter
<1> QED
  BY <1>2, <1>3

\* What Run does after a session keeps the variables of the loop in range.
LEMMA AfterSessionType ==
  ASSUME AgentInv, NEW w \in BOOLEAN, AfterSession(w), w \/ refusals < MaxRefusals
  PROVE /\ run' \in {"sleeping", "stopped"}
        /\ connected' \in BOOLEAN
        /\ backoff' \in ReconnectBase .. ReconnectMax
        /\ delay' \in Nat
        /\ refusals' \in 0 .. MaxRefusals
<1> USE ReconnectAssumption
<1>1. CASE ctxLive
  <2>1. backoff' \in ReconnectBase .. ReconnectMax
    BY <1>1 DEF AfterSession, AgentInv, AgentTypeOK
  <2>2. delay' \in Nat
    <3>1. backoff' \in Nat /\ delay' \in jitter(backoff')
      BY <1>1, <2>1 DEF AfterSession
    <3> QED
      BY <3>1, JitterNat
  <2> QED
    BY <1>1, <2>1, <2>2 DEF AfterSession, AgentInv, AgentTypeOK
<1>2. CASE ~ctxLive
  BY <1>2 DEF AfterSession, AgentInv, AgentTypeOK, loopVars
<1> QED
  BY <1>1, <1>2

\* The initial state satisfies the invariant.
LEMMA AgentInitInv == AgentInit => AgentInv
<1> SUFFICES ASSUME AgentInit PROVE AgentInv
  OBVIOUS
<1>1. backoff \in ReconnectBase .. ReconnectMax /\ refusals \in 0 .. MaxRefusals
  BY ReconnectAssumption DEF AgentInit
<1>2. executed \in [Command -> Nat]
  BY DEF AgentInit
<1>3. AgentTypeOK
  BY <1>1, <1>2 DEF AgentInit, AgentTypeOK
<1> QED
  BY <1>3 DEF AgentInit, AgentInv, Handling, AuditBeforeAnswer, NoStragglers

\* Steps of Run: dialing, the end of a session, the sleep.
LEMMA LoopInv ==
  ASSUME AgentInv, OpenFails \/ OpenSucceeds \/ LoopStep
  PROVE AgentInv'
<1> USE CommandAssumption, ReconnectAssumption
<1>1. CASE OpenFails
  <2>1. UNCHANGED <<ctxLive, sessionLive, beat, recv, command, executed, audits>>
        /\ AfterSession(FALSE) /\ refusals < MaxRefusals /\ run = "dialing"
    BY <1>1 DEF OpenFails, dbVars
  <2> QED
    BY <2>1, AfterSessionType
    DEF AgentInv, AgentTypeOK, Handling, AuditBeforeAnswer, NoStragglers
<1>2. CASE OpenSucceeds
  BY <1>2 DEF OpenSucceeds, AgentInv, AgentTypeOK, Handling, AuditBeforeAnswer,
    NoStragglers, loopVars, dbVars
<1>3. CASE SessionEnds
  <2>1. UNCHANGED <<ctxLive, sessionLive, beat, recv, command, executed, audits>>
        /\ AfterSession(TRUE) /\ SessionOver
    BY <1>3 DEF SessionEnds, dbVars
  <2> QED
    BY <2>1, AfterSessionType
    DEF AgentInv, AgentTypeOK, Handling, AuditBeforeAnswer, NoStragglers, SessionOver
<1>4. CASE SleepEnds
  <2>1. NextBackoff \in ReconnectBase .. ReconnectMax
    BY DEF NextBackoff, AgentInv, AgentTypeOK
  <2> QED
    BY <1>4, <2>1 DEF SleepEnds, AgentInv, AgentTypeOK, Handling,
      AuditBeforeAnswer, NoStragglers, dbVars
<1>5. CASE SleepInterrupted
  BY <1>5 DEF SleepInterrupted, AgentInv, AgentTypeOK, Handling,
    AuditBeforeAnswer, NoStragglers, loopVars, dbVars
<1> QED
  BY <1>1, <1>2, <1>3, <1>4, <1>5 DEF LoopStep

\* Steps of the heartbeat goroutine.
LEMMA HeartbeatInv ==
  ASSUME AgentInv, HeartbeatStep
  PROVE AgentInv'
<1> USE DEF AgentInv, AgentTypeOK, Handling, AuditBeforeAnswer, NoStragglers,
      loopVars, dbVars
<1>1. CASE HeartbeatOK
  BY <1>1 DEF HeartbeatOK
<1>2. CASE HeartbeatFails
  BY <1>2 DEF HeartbeatFails, CancelSession
<1>3. CASE HeartbeatTick
  BY <1>3 DEF HeartbeatTick
<1>4. CASE HeartbeatStops
  BY <1>4 DEF HeartbeatStops
<1> QED
  BY <1>1, <1>2, <1>3, <1>4 DEF HeartbeatStep

\* Steps of the receive goroutine: taking a frame, handling it, answering.
LEMMA ReceiveInv ==
  ASSUME AgentInv,
         HandlerStep \/ ReceiveAck \/ ReceiveEnds \/ (\E c \in Command : Receive(c))
  PROVE AgentInv'
<1> USE CommandAssumption
    DEF AgentInv, AgentTypeOK, Handling, AuditBeforeAnswer, NoStragglers,
      loopVars, dbVars
<1>1. CASE Execute
  <2>1. command \in Command
    BY <1>1 DEF Execute
  <2>2. executed' \in [Command -> Nat]
    BY <1>1, <2>1 DEF Execute
  <2>3. recv' \in {"auditing", "submitting"}
        /\ (recv' = "submitting" => Kind[command] # QueryKind)
    BY <1>1 DEF Execute, AfterExecute
  <2> QED
    BY <1>1, <2>1, <2>2, <2>3 DEF Execute
<1>2. CASE recordQueryAudit
  BY <1>2 DEF recordQueryAudit
<1>3. CASE SubmitOK
  BY <1>3 DEF SubmitOK
<1>4. CASE SubmitFails
  BY <1>4 DEF SubmitFails, CancelSession
<1>5. CASE ReceiveAck
  BY <1>5 DEF ReceiveAck, agentVars
<1>6. CASE ReceiveEnds
  BY <1>6 DEF ReceiveEnds, CancelSession
<1>7. ASSUME NEW c \in Command, Receive(c)
      PROVE AgentInv'
  BY <1>7 DEF Receive, QueryKind, PingKind
<1> QED
  BY <1>1, <1>2, <1>3, <1>4, <1>5, <1>6, <1>7 DEF HandlerStep

\* SIGTERM, and a crash with the restart that follows it.
LEMMA ProcessInv ==
  ASSUME AgentInv, Terminate \/ Crash
  PROVE AgentInv'
<1> USE CommandAssumption, ReconnectAssumption
    DEF AgentInv, AgentTypeOK, Handling, AuditBeforeAnswer, NoStragglers,
      loopVars, dbVars
<1>1. CASE Terminate
  BY <1>1 DEF Terminate
<1>2. CASE Crash
  <2>1. backoff' \in ReconnectBase .. ReconnectMax /\ refusals' \in 0 .. MaxRefusals
    BY <1>2 DEF Crash, Boot
  <2> QED
    BY <1>2, <2>1 DEF Crash, Boot
<1> QED
  BY <1>1, <1>2

\* The agent's invariant: types, the audit before the answer, no goroutine of
\* one session alive in the next.  Handling, that a command is at hand while
\* one is handled, makes it inductive.
THEOREM AgentInvariance == AgentSpec => []AgentInv
<1>1. AgentInit => AgentInv
  BY AgentInitInv
<1>2. AgentInv /\ [AgentNext]_agentVars => AgentInv'
  <2> SUFFICES ASSUME AgentInv, [AgentNext]_agentVars
               PROVE AgentInv'
    OBVIOUS
  <2>1. CASE UNCHANGED agentVars
    BY <2>1 DEF agentVars, AgentInv, AgentTypeOK, Handling, AuditBeforeAnswer,
      NoStragglers, loopVars, dbVars
  <2>2. CASE AgentNext
    BY <2>2, LoopInv, HeartbeatInv, ReceiveInv, ProcessInv DEF AgentNext
  <2> QED
    BY <2>1, <2>2
<1> QED
  BY <1>1, <1>2, PTL DEF AgentSpec

\* The variables of the agent keep their types; backoff stays within bounds.
THEOREM AgentTypeCorrect == AgentSpec => []AgentTypeOK
<1>1. AgentInv => AgentTypeOK
  BY DEF AgentInv
<1> QED
  BY <1>1, AgentInvariance, PTL

\* No answer to a query leaves the host before the audit entry is attempted.
THEOREM AuditFirst == AgentSpec => []AuditBeforeAnswer
<1>1. AgentInv => AuditBeforeAnswer
  BY DEF AgentInv
<1> QED
  BY <1>1, AgentInvariance, PTL

\* Sessions of one process never overlap.
THEOREM SessionsDoNotOverlap == AgentSpec => []NoStragglers
<1>1. AgentInv => NoStragglers
  BY DEF AgentInv
<1> QED
  BY <1>1, AgentInvariance, PTL

-----------------------------------------------------------------------------
(* Induction and recursion.                                                *)

\* A set of naturals that is not empty has a least member.
LEMMA LeastNatural ==
  ASSUME NEW T, T \subseteq Nat, T # {}
  PROVE \E n \in T : \A m \in T : n <= m
<1> DEFINE R == OpToRel(<, Nat)
<1>1. IsWellFoundedOn(R, Nat)
  BY NatLessThanWellFounded
<1>2. PICK x \in T : \A y \in T : ~(<<y, x>> \in R)
  <2> HIDE DEF R
  <2> QED
    BY <1>1, WFMin
<1>3. \A y \in T : ~(y < x)
  BY <1>2 DEF OpToRel
<1> QED
  BY <1>3

Steps(S, b) == [2 .. b -> [S -> S]]

\* f is s0 and then what step makes of it, up to b.
Iterates(f, S, s0, step, b) ==
  /\ f \in [1 .. b -> S]
  /\ f[1] = s0
  /\ \A i \in 2 .. b : f[i] = step[i][f[i - 1]]

\* States can be computed one after the other.
LEMMA Iteration ==
  ASSUME NEW S, NEW s0 \in S, NEW b \in Nat \ {0}, NEW step \in Steps(S, b)
  PROVE \E f : Iterates(f, S, s0, step, b)
<1> USE DEF Steps, Iterates
<1> DEFINE Upto(m) == \E f \in [1 .. m -> S] :
                        f[1] = s0 /\ \A i \in 2 .. m : f[i] = step[i][f[i - 1]]
           T == {m \in 1 .. b : ~Upto(m)}
<1>1. CASE T = {}
  <2>1. Upto(b)
    BY <1>1
  <2> QED
    BY <2>1
<1>2. CASE T # {}
  <2>1. PICK m \in T : \A k \in T : m <= k
    <3>1. T \subseteq Nat
      OBVIOUS
    <3> HIDE DEF T
    <3> QED
      BY <1>2, <3>1, LeastNatural
  <2>2. m \in 1 .. b /\ ~Upto(m)
    BY <2>1
  <2>3. CASE m = 1
    <3> DEFINE f == [i \in 1 .. 1 |-> s0]
    <3>1. f \in [1 .. m -> S] /\ f[1] = s0 /\ \A i \in 2 .. m : f[i] = step[i][f[i - 1]]
      BY <2>3
    <3> QED
      BY <2>2, <3>1
  <2>4. CASE m > 1
    <3>1. m - 1 \in 1 .. b /\ m - 1 \notin T
      <4> HIDE DEF T
      <4> QED
        BY <2>1, <2>2, <2>4
    <3>2. Upto(m - 1)
      BY <3>1
    <3> HIDE DEF T
    <3>3. PICK g \in [1 .. m - 1 -> S] :
            g[1] = s0 /\ \A i \in 2 .. m - 1 : g[i] = step[i][g[i - 1]]
      BY <3>2
    <3> DEFINE s == step[m][g[m - 1]]
               f == [i \in 1 .. m |-> IF i = m THEN s ELSE g[i]]
    <3>4. s \in S
      <4>1. g[m - 1] \in S /\ m \in 2 .. b
        BY <2>2, <2>4, <3>1, <3>3
      <4>2. step[m] \in [S -> S]
        BY <4>1
      <4> QED
        BY <4>1, <4>2
    <3>5. f[m] = s /\ \A i \in 1 .. m - 1 : f[i] = g[i]
      BY <2>2, <2>4
    <3>6. f \in [1 .. m -> S]
      BY <2>2, <2>4, <3>3, <3>4
    <3> HIDE DEF f
    <3>7. f[1] = s0
      BY <2>2, <2>4, <3>3, <3>5
    <3>8. ASSUME NEW i \in 2 .. m PROVE f[i] = step[i][f[i - 1]]
      <4>1. i - 1 \in 1 .. m - 1
        BY <2>2
      <4>2. CASE i = m
        BY <3>5, <4>1, <4>2
      <4>3. CASE i # m
        <5>1. i \in 1 .. m - 1 /\ i \in 2 .. m - 1
          BY <2>2, <4>3
        <5> QED
          BY <3>3, <3>5, <4>1, <5>1
      <4> QED
        BY <4>2, <4>3
    <3>9. Upto(m)
      BY <3>6, <3>7, <3>8
    <3> QED
      BY <2>2, <3>9
  <2> QED
    BY <2>2, <2>3, <2>4
<1> QED
  BY <1>1, <1>2

-----------------------------------------------------------------------------
(* The guard.                                                              *)

ScanState == [mode : {"normal"} \cup Quotes, skip : BOOLEAN]

\* The scanner's states satisfy the equation that defines them.
LEMMA ScanEquation ==
  ASSUME NEW text \in Seq(STRING)
  PROVE LET at == scanOutsideQuotes(text)
        IN /\ at \in [1 .. Len(text) + 1 -> ScanState]
           /\ at[1] = ScanStart
           /\ \A i \in 1 .. Len(text) : at[i + 1] = ScanStep(text, i, at[i])
<1> DEFINE n == Len(text) + 1
           Is(f) == f = [i \in 1 .. n |-> IF i = 1 THEN ScanStart
                                          ELSE ScanStep(text, i - 1, f[i - 1])]
           step == [i \in 2 .. n |-> [was \in ScanState |-> ScanStep(text, i - 1, was)]]
           at == scanOutsideQuotes(text)
<1>0. Len(text) \in Nat /\ n \in Nat \ {0}
  OBVIOUS
<1>1. ScanStart \in ScanState
  BY DEF ScanStart, ScanState
<1>2. \A i \in 1 .. n - 1, was \in ScanState : ScanStep(text, i, was) \in ScanState
  BY DEF ScanStep, ScanState, ScanStart
<1>3. /\ step \in [2 .. n -> [ScanState -> ScanState]]
      /\ \A i \in 2 .. n, was \in ScanState : step[i][was] = ScanStep(text, i - 1, was)
  <2> HIDE DEF n
  <2>1. \A i \in 2 .. n : i - 1 \in 1 .. n - 1
    BY <1>0
  <2> QED
    BY <1>2, <2>1
<1> HIDE DEF step, n
<1>4. PICK g : Iterates(g, ScanState, ScanStart, step, n)
  <2>1. step \in Steps(ScanState, n)
    BY <1>3 DEF Steps
  <2> QED
    BY <1>0, <1>1, <2>1, Iteration
<1> USE DEF Iterates
<1>5. \A i \in 2 .. n : g[i] = ScanStep(text, i - 1, g[i - 1])
  <2> SUFFICES ASSUME NEW i \in 2 .. n PROVE g[i] = ScanStep(text, i - 1, g[i - 1])
    OBVIOUS
  <2>1. g[i - 1] \in ScanState
    BY <1>0, <1>4
  <2> QED
    BY <1>3, <1>4, <2>1
<1>6. Is(g)
  <2> DEFINE h == [i \in 1 .. n |-> IF i = 1 THEN ScanStart
                                    ELSE ScanStep(text, i - 1, g[i - 1])]
  <2>1. \A i \in 1 .. n : g[i] = h[i]
    BY <1>0, <1>4, <1>5
  <2>2. g = [i \in 1 .. n |-> g[i]] /\ h = [i \in 1 .. n |-> h[i]]
    BY <1>4
  <2>3. g = h
    <3> HIDE DEF h
    <3> QED
      BY <2>1, <2>2
  <2> QED
    BY <2>3
<1>7. Is(CHOOSE f : Is(f))
  <2> HIDE DEF Is
  <2> QED
    BY <1>6
<1>8. at = CHOOSE f : Is(f)
  BY DEF scanOutsideQuotes, n
<1>9. Is(at)
  BY <1>7, <1>8
<1> HIDE DEF at
<1>10. at[1] = ScanStart /\ \A i \in 2 .. n : at[i] = ScanStep(text, i - 1, at[i - 1])
  BY <1>0, <1>9
<1>11. at = g
  <2> DEFINE T == {i \in 1 .. n : at[i] # g[i]}
  <2>0. at = [i \in 1 .. n |-> at[i]] /\ g = [i \in 1 .. n |-> g[i]]
    BY <1>4, <1>9
  <2>1. CASE T = {}
    <3>1. \A i \in 1 .. n : at[i] = g[i]
      BY <2>1
    <3> QED
      BY <2>0, <3>1
  <2>2. CASE T # {}
    <3>1. PICK i \in T : \A k \in T : i <= k
      <4>1. T \subseteq Nat
        BY <1>0
      <4> HIDE DEF T
      <4> QED
        BY <2>2, <4>1, LeastNatural
    <3>2. i # 1
      BY <1>4, <1>10, <3>1
    <3>3. i \in 2 .. n /\ i - 1 \in 1 .. n /\ i - 1 \notin T
      BY <1>0, <3>1, <3>2
    <3>4. at[i - 1] = g[i - 1]
      BY <3>3
    <3>5. at[i] = g[i]
      BY <1>5, <1>10, <3>3, <3>4
    <3> QED
      BY <3>1, <3>5
  <2> QED
    BY <2>1, <2>2
<1>12. \A i \in 1 .. Len(text) : at[i + 1] = ScanStep(text, i, at[i])
  <2> SUFFICES ASSUME NEW i \in 1 .. Len(text) PROVE at[i + 1] = ScanStep(text, i, at[i])
    OBVIOUS
  <2>1. i + 1 \in 2 .. n /\ (i + 1) - 1 = i
    BY <1>0 DEF n
  <2> QED
    BY <1>10, <2>1
<1> QED
  BY <1>4, <1>10, <1>11, <1>12 DEF at, n

\* So do the escaped positions of a literal.
LEMMA EscapedEquation ==
  ASSUME NEW text, NEW i \in Nat \ {0}, NEW j \in Nat \ {0}
  PROVE \A k \in 1 .. j :
          /\ Escaped(text, i, j)[k] \in BOOLEAN
          /\ Escaped(text, i, j)[k] <=>
               /\ k > i /\ text[i] # "backtick"
               /\ text[k - 1] = "backslash" /\ ~Escaped(text, i, j)[k - 1]
<1> DEFINE Next1(k, was) == IF k <= i \/ text[i] = "backtick" THEN FALSE
                            ELSE text[k - 1] = "backslash" /\ ~was
           Is(f) == f = [k \in 1 .. j |-> IF k <= i \/ text[i] = "backtick" THEN FALSE
                                          ELSE text[k - 1] = "backslash" /\ ~f[k - 1]]
           step == [k \in 2 .. j |-> [was \in BOOLEAN |-> Next1(k, was)]]
           esc == Escaped(text, i, j)
<1>1. /\ step \in Steps(BOOLEAN, j)
      /\ \A k \in 2 .. j, was \in BOOLEAN : step[k][was] = Next1(k, was)
  BY DEF Steps
<1> HIDE DEF step
<1>2. PICK g : Iterates(g, BOOLEAN, FALSE, step, j)
  BY <1>1, Iteration
<1>3. g \in [1 .. j -> BOOLEAN] /\ g[1] = FALSE
  BY <1>2 DEF Iterates
<1>4. \A k \in 2 .. j : g[k - 1] \in BOOLEAN /\ g[k] = Next1(k, g[k - 1])
  <2> HIDE DEF Next1
  <2> SUFFICES ASSUME NEW k \in 2 .. j
               PROVE g[k - 1] \in BOOLEAN /\ g[k] = Next1(k, g[k - 1])
    OBVIOUS
  <2>1. k - 1 \in 1 .. j
    OBVIOUS
  <2>2. g[k - 1] \in BOOLEAN
    BY <1>3, <2>1
  <2>3. g[k] = step[k][g[k - 1]]
    BY <1>2 DEF Iterates
  <2>4. step[k][g[k - 1]] = Next1(k, g[k - 1])
    BY <1>1, <2>2
  <2> QED
    BY <2>2, <2>3, <2>4
<1>5. Is(g)
  <2> DEFINE h == [k \in 1 .. j |-> Next1(k, g[k - 1])]
  <2>1. \A k \in 1 .. j : g[k] = h[k]
    <3>1. h[1] = FALSE
      OBVIOUS
    <3>2. \A k \in 2 .. j : h[k] = Next1(k, g[k - 1])
      <4> HIDE DEF Next1
      <4> QED
        OBVIOUS
    <3> HIDE DEF h, Next1
    <3>3. \A k \in 1 .. j : k = 1 \/ k \in 2 .. j
      OBVIOUS
    <3> QED
      BY <1>3, <1>4, <3>1, <3>2, <3>3
  <2>2. g = [k \in 1 .. j |-> g[k]] /\ h = [k \in 1 .. j |-> h[k]]
    BY <1>3
  <2>3. g = h
    <3> HIDE DEF h
    <3> QED
      BY <2>1, <2>2
  <2> QED
    BY <2>3
<1>6. Is(CHOOSE f : Is(f))
  <2> HIDE DEF Is
  <2> QED
    BY <1>5
<1>7. esc = CHOOSE f : Is(f)
  BY DEF Escaped
<1>8. Is(esc)
  BY <1>6, <1>7
<1> HIDE DEF esc
<1>9. \A k \in 1 .. j : esc[k] = Next1(k, esc[k - 1])
  BY <1>8
<1>10. ASSUME NEW k \in 1 .. j
       PROVE /\ esc[k] \in BOOLEAN
             /\ esc[k] <=> /\ k > i /\ text[i] # "backtick"
                           /\ text[k - 1] = "backslash" /\ ~esc[k - 1]
  <2>1. esc[k] = Next1(k, esc[k - 1])
    BY <1>9
  <2>2. k > i <=> ~(k <= i)
    OBVIOUS
  <2> HIDE DEF Is
  <2> QED
    BY <2>1, <2>2, Zenon
<1> QED
  BY <1>10 DEF esc

\* One step inside a literal, before its end.
LEMMA ScanInside ==
  ASSUME NEW text, NEW y, NEW q \in Quotes, NEW e \in BOOLEAN,
         y # Len(text), e \/ text[y] # q
  PROVE LET skips == ~e /\ text[y] = "backslash" /\ q # "backtick"
        IN ScanStep(text, y, [mode |-> q, skip |-> e]) = [mode |-> q, skip |-> skips]
<1> DEFINE was == [mode |-> q, skip |-> e]
           skips == ~e /\ text[y] = "backslash" /\ q # "backtick"
<1>0. was.mode = q /\ was.skip = e /\ q # "normal"
  BY DEF Quotes
<1> HIDE DEF was
<1>1. CASE e
  <2>1. ScanStep(text, y, was) = [mode |-> q, skip |-> FALSE]
    BY <1>0, <1>1 DEF ScanStep
  <2>2. skips = FALSE
    BY <1>1
  <2> QED
    BY <2>1, <2>2 DEF was
<1>2. CASE ~e /\ text[y] = "backslash" /\ q # "backtick"
  <2>1. ScanStep(text, y, was) = [mode |-> q, skip |-> TRUE]
    BY <1>0, <1>2 DEF ScanStep
  <2>2. skips = TRUE
    BY <1>2
  <2> QED
    BY <2>1, <2>2 DEF was
<1>3. CASE ~e /\ ~(text[y] = "backslash" /\ q # "backtick")
  <2>1. ScanStep(text, y, was) = [mode |-> q, skip |-> FALSE]
    BY <1>0, <1>3 DEF ScanStep
  <2>2. skips = FALSE
    BY <1>3
  <2> QED
    BY <2>1, <2>2 DEF was
<1> QED
  BY <1>1, <1>2, <1>3

\* Between the quotes of a literal the scanner is in the mode of its quote, and
\* skips what is escaped.
LEMMA InsideLiteral ==
  ASSUME NEW text \in Seq(STRING), NEW k \in 1 .. Len(text), NEW j \in 1 .. Len(text),
         Literal(text, k, j),
         scanOutsideQuotes(text)[k + 1] = [mode |-> text[k], skip |-> FALSE]
  PROVE \A x \in k + 1 .. j :
          scanOutsideQuotes(text)[x] = [mode |-> text[k], skip |-> Escaped(text, k, j)[x]]
<1> DEFINE at == scanOutsideQuotes(text)
           esc == Escaped(text, k, j)
           q == text[k]
           T == {x \in k + 1 .. j : at[x] # [mode |-> q, skip |-> esc[x]]}
<1>0. k \in Nat \ {0} /\ j \in Nat \ {0} /\ Len(text) \in Nat /\ j <= Len(text)
  OBVIOUS
<1>1. /\ q \in Quotes /\ k < j /\ text[j] = q /\ ~esc[j]
      /\ \A x \in k + 1 .. j - 1 : text[x] = q => esc[x]
  BY DEF Literal
<1>2. \A x \in 1 .. Len(text) : at[x + 1] = ScanStep(text, x, at[x])
  BY ScanEquation
<1>3. \A x \in 1 .. j :
        /\ esc[x] \in BOOLEAN
        /\ esc[x] <=> x > k /\ q # "backtick" /\ text[x - 1] = "backslash" /\ ~esc[x - 1]
  BY <1>0, EscapedEquation
<1> HIDE DEF at, esc, q
<1>4. SUFFICES ASSUME T # {} PROVE FALSE
  BY DEF at, esc, q
<1>5. PICK x \in T : \A y \in T : x <= y
  <2>1. T \subseteq Nat
    BY <1>0
  <2> HIDE DEF T
  <2> QED
    BY <1>4, <2>1, LeastNatural
<1>6. x \in k + 1 .. j /\ at[x] # [mode |-> q, skip |-> esc[x]]
  BY <1>5
<1>7. CASE x = k + 1
  <2>1. text[k] # "backslash" /\ x \in 1 .. j /\ x - 1 = k
    BY <1>0, <1>1, <1>6, <1>7 DEF Quotes, q
  <2>2. esc[x] = FALSE
    BY <1>3, <2>1
  <2>3. at[x] = [mode |-> q, skip |-> FALSE]
    BY <1>7 DEF at, q
  <2> QED
    BY <1>6, <2>2, <2>3
<1>8. CASE x # k + 1
  <2> DEFINE y == x - 1
  <2>1. /\ y \in k + 1 .. j - 1 /\ y \in 1 .. j /\ y \in 1 .. Len(text) /\ y # Len(text)
        /\ y + 1 = x /\ x \in 1 .. j /\ x > k
    BY <1>0, <1>6, <1>8
  <2>2. y \notin T
    <3> HIDE DEF T
    <3> QED
      BY <1>0, <1>5, <1>6
  <2> HIDE DEF y
  <2>3. at[y] = [mode |-> q, skip |-> esc[y]]
    <3>1. y \in k + 1 .. j
      BY <1>0, <2>1
    <3> QED
      BY <2>2, <3>1
  <2>4. at[x] = ScanStep(text, y, [mode |-> q, skip |-> esc[y]])
    BY <1>2, <2>1, <2>3
  <2>5. esc[y] \in BOOLEAN /\ (esc[y] \/ text[y] # q)
    BY <1>1, <1>3, <2>1
  <2> DEFINE skips == ~esc[y] /\ text[y] = "backslash" /\ q # "backtick"
  <2>6. at[x] = [mode |-> q, skip |-> skips]
    BY <1>1, <2>1, <2>4, <2>5, ScanInside
  <2>7. esc[x] = skips
    <3>1. x - 1 = y
      BY <1>0, <1>6 DEF y
    <3>2. esc[x] \in BOOLEAN /\ (esc[x] <=> skips)
      BY <1>3, <2>1, <3>1
    <3> QED
      BY <3>2
  <2> QED
    BY <1>6, <2>6, <2>7
<1> QED
  BY <1>7, <1>8

\* Every position outside the literals of a text is one the scanner looks at:
\* the positions where it stands at the start of a character or of a literal
\* are closed under reading.
LEMMA BareIsOutside ==
  ASSUME NEW text \in Seq(STRING)
  PROVE Bare(text) \subseteq OutsideQuotes(text)
<1> DEFINE n == Len(text)
           at == scanOutsideQuotes(text)
           Doubled(i) == i \in 1 .. n /\ text[i] \in Quotes
                         /\ at[i] = [mode |-> text[i], skip |-> TRUE]
           C == {i \in 1 .. n + 1 : at[i] = ScanStart \/ Doubled(i)}
<1>0. n \in Nat
  OBVIOUS
<1>1. at[1] = ScanStart /\ \A i \in 1 .. n : at[i + 1] = ScanStep(text, i, at[i])
  BY ScanEquation
<1> HIDE DEF at, n
<1>2. C \in SUBSET (1 .. n + 1) /\ 1 \in C
  BY <1>0, <1>1
<1>3. ASSUME NEW i \in 1 .. n, i \in C, text[i] \notin Quotes
      PROVE i + 1 \in C
  <2>1. at[i] = ScanStart
    BY <1>3
  <2>2. ScanStep(text, i, ScanStart) = ScanStart
    BY <1>3 DEF ScanStep, ScanStart
  <2> QED
    BY <1>0, <1>1, <2>1, <2>2
<1>4. ASSUME NEW i \in 1 .. n, NEW j \in 1 .. n, i \in C, Literal(text, i, j)
      PROVE j + 1 \in C
  <2> DEFINE q == text[i]
             esc == Escaped(text, i, j)
  <2>1. /\ q \in Quotes /\ i < j /\ text[j] = q /\ ~esc[j]
    BY <1>4 DEF Literal
  <2> HIDE DEF q
  <2>2. at[i + 1] = [mode |-> q, skip |-> FALSE]
    <3>1. CASE at[i] = ScanStart
      <4>1. ScanStep(text, i, ScanStart) = [mode |-> q, skip |-> FALSE]
        BY <2>1 DEF ScanStep, ScanStart, q
      <4> QED
        BY <1>1, <3>1, <4>1
    <3>2. CASE at[i] = [mode |-> q, skip |-> TRUE]
      <4>1. ScanStep(text, i, [mode |-> q, skip |-> TRUE]) = [mode |-> q, skip |-> FALSE]
        BY DEF ScanStep
      <4> QED
        BY <1>1, <3>2, <4>1
    <3> QED
      BY <1>4, <3>1, <3>2 DEF q
  <2>3. at[j] = [mode |-> q, skip |-> FALSE]
    <3>1. j \in i + 1 .. j
      BY <1>0, <2>1
    <3>2. at[j] = [mode |-> q, skip |-> esc[j]]
      BY <1>4, <2>2, <3>1, InsideLiteral DEF at, n, q
    <3>3. esc[j] = FALSE
      <4>1. i \in Nat \ {0} /\ j \in Nat \ {0} /\ j \in 1 .. j
        BY <1>0
      <4>2. esc[j] \in BOOLEAN
        BY <4>1, EscapedEquation
      <4> QED
        BY <2>1, <4>2
    <3> QED
      BY <3>2, <3>3
  <2>4. at[j + 1] = ScanStep(text, j, [mode |-> q, skip |-> FALSE])
    BY <1>1, <2>3
  <2>5. q # "backslash" /\ q # "normal"
    BY <2>1 DEF Quotes
  <2>6. CASE j = n \/ text[j + 1] # q
    <3>1. ScanStep(text, j, [mode |-> q, skip |-> FALSE]) = ScanStart
      BY <2>1, <2>5, <2>6 DEF ScanStep, n
    <3> QED
      BY <1>0, <2>4, <3>1
  <2>7. CASE j # n /\ text[j + 1] = q
    <3>1. ScanStep(text, j, [mode |-> q, skip |-> FALSE]) = [mode |-> q, skip |-> TRUE]
      BY <2>1, <2>5, <2>7 DEF ScanStep, n
    <3>2. j + 1 \in 1 .. n
      BY <1>0, <2>7
    <3>3. Doubled(j + 1)
      BY <2>1, <2>4, <2>7, <3>1, <3>2
    <3> QED
      BY <1>0, <3>2, <3>3
  <2> QED
    BY <2>6, <2>7
<1>5. ClosedUnderReading(text, C)
  <2> HIDE DEF C
  <2> QED
    BY <1>3, <1>4 DEF ClosedUnderReading, n
<1>6. ASSUME NEW i \in Bare(text) PROVE i \in OutsideQuotes(text)
  <2>1. i \in 1 .. n /\ text[i] \notin Quotes /\ i \in C
    <3> HIDE DEF C
    <3> QED
      BY <1>2, <1>5 DEF Bare, n
  <2>2. at[i].mode = "normal"
    BY <2>1 DEF ScanStart
  <2> QED
    BY <2>1, <2>2 DEF OutsideQuotes, at, n
<1> QED
  BY <1>6

\* The scanner went from the quote at k to i without leaving the literal.
Within(text, at, k, i) ==
  /\ k \in 1 .. Len(text) /\ k < i /\ text[k] \in Quotes
  /\ at[k + 1] = [mode |-> text[k], skip |-> FALSE]
  /\ \A x \in k + 1 .. i : at[x].mode = text[k] /\ at[x].skip \in BOOLEAN
  /\ \A x \in k + 1 .. i - 1 : text[x] = text[k] => at[x].skip

\* One step of the scanner within a literal, by cases.
LEMMA ScanCases ==
  ASSUME NEW text, NEW x, NEW was, was.mode \in Quotes, was.skip \in BOOLEAN
  PROVE /\ was.skip => ScanStep(text, x, was) = [mode |-> was.mode, skip |-> FALSE]
        /\ ~was.skip /\ text[x] # was.mode =>
             ScanStep(text, x, was) =
               [mode |-> was.mode,
                skip |-> text[x] = "backslash" /\ was.mode # "backtick" /\ x # Len(text)]
        /\ ~was.skip /\ text[x] = was.mode =>
             ScanStep(text, x, was) =
               IF x # Len(text) /\ text[x + 1] = was.mode THEN [mode |-> was.mode, skip |-> TRUE]
                                                          ELSE ScanStart
<1> DEFINE q == was.mode
           next == ScanStep(text, x, was)
           skips == text[x] = "backslash" /\ q # "backtick" /\ x # Len(text)
<1>0. q # "normal" /\ q # "backslash"
  BY DEF Quotes
<1>1. was.skip => next = [mode |-> q, skip |-> FALSE]
  BY DEF ScanStep
<1>2. ASSUME ~was.skip, text[x] # q
      PROVE next = [mode |-> q, skip |-> skips]
  <2>1. CASE skips
    <3>1. next = [mode |-> q, skip |-> TRUE] /\ skips = TRUE
      BY <1>0, <1>2, <2>1 DEF ScanStep
    <3> QED
      BY <3>1
  <2>2. CASE ~skips
    <3>1. next = [mode |-> q, skip |-> FALSE] /\ skips = FALSE
      BY <1>0, <1>2, <2>2 DEF ScanStep
    <3> QED
      BY <3>1
  <2> QED
    BY <2>1, <2>2
<1>3. ASSUME ~was.skip, text[x] = q
      PROVE next = IF x # Len(text) /\ text[x + 1] = q THEN [mode |-> q, skip |-> TRUE]
                                                       ELSE ScanStart
  BY <1>0, <1>3 DEF ScanStep
<1> QED
  BY <1>1, <1>2, <1>3

\* Within a literal the scanner skips exactly the escaped characters, so that
\* where it leaves the literal the literal ends.
LEMMA WithinIsLiteral ==
  ASSUME NEW text \in Seq(STRING), NEW k, NEW i \in 1 .. Len(text),
         Within(text, scanOutsideQuotes(text), k, i),
         text[i] = text[k], ~scanOutsideQuotes(text)[i].skip
  PROVE Literal(text, k, i)
<1> DEFINE at == scanOutsideQuotes(text)
           esc == Escaped(text, k, i)
           q == text[k]
           T == {x \in k + 1 .. i : at[x].skip # esc[x]}
<1>0. /\ k \in Nat \ {0} /\ i \in Nat \ {0} /\ Len(text) \in Nat /\ k \in 1 .. Len(text)
      /\ i <= Len(text) /\ k < i
  BY DEF Within
<1>1. /\ q \in Quotes /\ at[k + 1] = [mode |-> q, skip |-> FALSE]
      /\ \A x \in k + 1 .. i : at[x].mode = q /\ at[x].skip \in BOOLEAN
      /\ \A x \in k + 1 .. i - 1 : text[x] = q => at[x].skip
      /\ text[i] = q /\ ~at[i].skip
  BY DEF Within
<1>2. \A x \in 1 .. Len(text) : at[x + 1] = ScanStep(text, x, at[x])
  BY ScanEquation
<1>3. \A x \in 1 .. i :
        /\ esc[x] \in BOOLEAN
        /\ esc[x] <=> x > k /\ q # "backtick" /\ text[x - 1] = "backslash" /\ ~esc[x - 1]
  BY <1>0, EscapedEquation
<1> HIDE DEF at, esc
<1>4. T = {}
  <2> SUFFICES ASSUME T # {} PROVE FALSE
    OBVIOUS
  <2>1. PICK x \in T : \A y \in T : x <= y
    <3>1. T \subseteq Nat
      BY <1>0
    <3> HIDE DEF T
    <3> QED
      BY <3>1, LeastNatural
  <2>2. x \in k + 1 .. i /\ at[x].skip # esc[x]
    BY <2>1
  <2>3. CASE x = k + 1
    <3>1. text[k] # "backslash" /\ x \in 1 .. i /\ x - 1 = k
      BY <1>0, <1>1, <2>2, <2>3 DEF Quotes
    <3>2. esc[x] = FALSE
      BY <1>3, <3>1
    <3>3. at[x].skip = FALSE
      BY <1>1, <2>3
    <3> QED
      BY <2>2, <3>2, <3>3
  <2>4. CASE x # k + 1
    <3> DEFINE y == x - 1
    <3>1. /\ y \in k + 1 .. i - 1 /\ y \in k + 1 .. i /\ y \in 1 .. Len(text)
          /\ y # Len(text) /\ y + 1 = x /\ x \in 1 .. i /\ x > k
      BY <1>0, <2>2, <2>4
    <3>2. y \notin T
      <4> HIDE DEF T
      <4> QED
        BY <1>0, <2>1, <2>2
    <3>3. /\ at[y].mode = q /\ at[y].skip \in BOOLEAN /\ at[y].skip = esc[y]
          /\ at[y].skip \/ text[y] # q
      BY <1>1, <3>1, <3>2
    <3>4. at[x] = ScanStep(text, y, at[y])
      BY <1>2, <3>1
    <3>5. esc[x] \in BOOLEAN /\ (esc[x] <=> q # "backtick" /\ text[y] = "backslash" /\ ~esc[y])
      BY <1>3, <3>1
    <3> HIDE DEF y, T, q
    <3> DEFINE was == at[y]
    <3>s. /\ was.skip => at[x] = [mode |-> was.mode, skip |-> FALSE]
          /\ ~was.skip /\ text[y] # was.mode =>
               at[x] = [mode |-> was.mode,
                        skip |-> text[y] = "backslash" /\ was.mode # "backtick" /\ y # Len(text)]
      <4>1. was.mode \in Quotes /\ was.skip \in BOOLEAN /\ at[x] = ScanStep(text, y, was)
        BY <1>1, <3>3, <3>4
      <4> HIDE DEF was
      <4> QED
        BY <4>1, ScanCases
    <3>6. CASE at[y].skip
      <4>1. at[x].skip = FALSE
        BY <3>6, <3>s
      <4> QED
        BY <2>2, <3>3, <3>5, <3>6, <4>1
    <3>7. CASE ~at[y].skip
      <4> DEFINE skips == text[y] = "backslash" /\ q # "backtick" /\ y # Len(text)
      <4>1. at[x] = [mode |-> q, skip |-> skips]
        BY <3>3, <3>7, <3>s
      <4>2. at[x].skip = skips
        BY <4>1
      <4>3. esc[x] = skips
        BY <3>1, <3>3, <3>5, <3>7
      <4> QED
        BY <2>2, <4>2, <4>3
    <3> QED
      BY <3>6, <3>7
  <2> QED
    BY <2>3, <2>4
<1>5. \A x \in k + 1 .. i : at[x].skip = esc[x]
  BY <1>4
<1>6. i \in k + 1 .. i /\ \A x \in k .. i - 1 : x > k => x \in k + 1 .. i - 1 /\ x \in k + 1 .. i
  BY <1>0
<1>7. ~esc[i] /\ \A x \in k .. i - 1 : x > k /\ text[x] = q => esc[x]
  BY <1>1, <1>5, <1>6
<1> QED
  BY <1>0, <1>1, <1>7 DEF Literal, esc

\* And every position it looks at is outside the literals: it gets there by
\* reading the text one character or one literal at a time.
LEMMA OutsideIsBare ==
  ASSUME NEW text \in Seq(STRING)
  PROVE OutsideQuotes(text) \subseteq Bare(text)
<1> DEFINE n == Len(text)
           at == scanOutsideQuotes(text)
<1>0. n \in Nat
  OBVIOUS
<1>1. /\ at[1] = ScanStart /\ at \in [1 .. n + 1 -> ScanState]
      /\ \A i \in 1 .. n : at[i + 1] = ScanStep(text, i, at[i])
  BY ScanEquation
<1> SUFFICES ASSUME NEW p \in OutsideQuotes(text), NEW B \in SUBSET (1 .. n + 1),
                    1 \in B, ClosedUnderReading(text, B)
             PROVE p \in B
  BY DEF Bare, OutsideQuotes
<1>2. /\ \A i \in 1 .. n : i \in B /\ text[i] \notin Quotes => i + 1 \in B
      /\ \A i, j \in 1 .. n : i \in B /\ Literal(text, i, j) => j + 1 \in B
  BY DEF ClosedUnderReading
<1> DEFINE Free(i) == at[i] = ScanStart /\ i \in B
           Inside(i) == \E k \in B : Within(text, at, k, i)
           Doubled(i) == /\ i \in 1 .. n /\ i \in B /\ text[i] \in Quotes
                         /\ at[i] = [mode |-> text[i], skip |-> TRUE]
           T == {i \in 1 .. n + 1 : ~(Free(i) \/ Inside(i) \/ Doubled(i))}
<1>3. p \in 1 .. n /\ at[p].mode = "normal"
  BY DEF OutsideQuotes
<1>w. \A k, i \in 1 .. n : Within(text, at, k, i) /\ text[i] = text[k] /\ ~at[i].skip
                             => Literal(text, k, i)
  BY WithinIsLiteral
<1> HIDE DEF at, n
\* A literal that starts at i.
<1>4. ASSUME NEW i \in 1 .. n, i \in B, text[i] \in Quotes,
             at[i + 1] = [mode |-> text[i], skip |-> FALSE]
      PROVE Inside(i + 1)
  <2> DEFINE j == i + 1
  <2>1. /\ i < j /\ \A x \in i + 1 .. j : x = j
        /\ \A x \in i + 1 .. j - 1 : FALSE
    BY <1>0
  <2>2. at[j].mode = text[i] /\ at[j].skip = FALSE
    BY <1>4
  <2> HIDE DEF j
  <2>3. Within(text, at, i, j)
    BY <1>4, <2>1, <2>2 DEF Within, n
  <2>4. Within(text, at, i, i + 1)
    BY <2>3 DEF j
  <2> QED
    BY <1>4, <2>4
<1>5. T = {}
  <2> SUFFICES ASSUME T # {} PROVE FALSE
    OBVIOUS
  <2>1. PICK m \in T : \A y \in T : m <= y
    <3>1. T \subseteq Nat
      BY <1>0
    <3> HIDE DEF T
    <3> QED
      BY <3>1, LeastNatural
  <2>2. m \in 1 .. n + 1 /\ ~Free(m) /\ ~Inside(m) /\ ~Doubled(m)
    BY <2>1
  <2>3. m # 1
    BY <1>1, <2>2
  <2> DEFINE i == m - 1
  <2>4. i \in 1 .. n /\ i + 1 = m /\ i \in 1 .. n + 1
    BY <1>0, <2>2, <2>3
  <2>5. i \notin T
    <3> HIDE DEF T
    <3> QED
      BY <1>0, <2>1, <2>2, <2>3
  <2>6. Free(i) \/ Inside(i) \/ Doubled(i)
    BY <2>4, <2>5
  <2> HIDE DEF T, i
  <2>7. at[m] = ScanStep(text, i, at[i])
    BY <1>1, <2>4
  <2>8. CASE Free(i)
    <3>1. CASE text[i] \notin Quotes
      <4>1. ScanStep(text, i, ScanStart) = ScanStart
        BY <3>1 DEF ScanStep, ScanStart
      <4> QED
        BY <1>2, <2>2, <2>4, <2>7, <2>8, <3>1, <4>1
    <3>2. CASE text[i] \in Quotes
      <4>1. ScanStep(text, i, ScanStart) = [mode |-> text[i], skip |-> FALSE]
        BY <3>2 DEF ScanStep, ScanStart
      <4>2. at[i + 1] = [mode |-> text[i], skip |-> FALSE] /\ i \in B
        BY <2>4, <2>7, <2>8, <4>1
      <4> HIDE DEF Inside
      <4> QED
        BY <1>4, <2>2, <2>4, <3>2, <4>2
    <3> QED
      BY <3>1, <3>2
  <2>9. CASE Doubled(i)
    <3>1. ScanStep(text, i, [mode |-> text[i], skip |-> TRUE]) = [mode |-> text[i], skip |-> FALSE]
      BY DEF ScanStep
    <3>2. at[i + 1] = [mode |-> text[i], skip |-> FALSE] /\ i \in B /\ text[i] \in Quotes
      BY <2>4, <2>7, <2>9, <3>1
    <3> HIDE DEF Inside
    <3> QED
      BY <1>4, <2>2, <2>4, <3>2
  <2>10. CASE Inside(i)
    <3>1. PICK k \in B : Within(text, at, k, i)
      BY <2>10
    <3>2. /\ k \in 1 .. n /\ k < i /\ text[k] \in Quotes
          /\ at[k + 1] = [mode |-> text[k], skip |-> FALSE]
          /\ \A x \in k + 1 .. i : at[x].mode = text[k] /\ at[x].skip \in BOOLEAN
          /\ \A x \in k + 1 .. i - 1 : text[x] = text[k] => at[x].skip
      BY <3>1 DEF Within, n
    <3>3. at[i].mode = text[k] /\ at[i].skip \in BOOLEAN
      BY <1>0, <2>4, <3>2
    \* The scanner stays in the literal.
    <3>4. ASSUME at[m].mode = text[k], at[m].skip \in BOOLEAN, text[i] = text[k] => at[i].skip
          PROVE Inside(m)
      <4>1. /\ k < m /\ m - 1 = i
            /\ \A x \in k + 1 .. m : x = m \/ x \in k + 1 .. i
            /\ \A x \in k + 1 .. m - 1 : x = i \/ x \in k + 1 .. i - 1
        BY <1>0, <2>4, <3>2
      <4>2. Within(text, at, k, m)
        BY <3>2, <3>4, <4>1 DEF Within, n
      <4> QED
        BY <4>2
    <3> HIDE DEF Inside
    <3> DEFINE was == at[i]
    <3>s. /\ was.skip => at[m] = [mode |-> was.mode, skip |-> FALSE]
          /\ ~was.skip /\ text[i] # was.mode =>
               at[m] = [mode |-> was.mode,
                        skip |-> text[i] = "backslash" /\ was.mode # "backtick" /\ i # Len(text)]
          /\ ~was.skip /\ text[i] = was.mode =>
               at[m] = IF i # Len(text) /\ text[i + 1] = was.mode
                         THEN [mode |-> was.mode, skip |-> TRUE] ELSE ScanStart
      <4>1. was.mode \in Quotes /\ was.skip \in BOOLEAN /\ at[m] = ScanStep(text, i, was)
        BY <2>7, <3>2, <3>3
      <4> HIDE DEF was
      <4> QED
        BY <4>1, ScanCases
    <3>5. CASE at[i].skip
      <4>1. at[m] = [mode |-> text[k], skip |-> FALSE]
        BY <3>3, <3>5, <3>s
      <4> QED
        BY <2>2, <3>4, <3>5, <4>1
    <3>6. CASE ~at[i].skip /\ text[i] # text[k]
      <4> DEFINE skips == text[i] = "backslash" /\ text[k] # "backtick" /\ i # Len(text)
      <4>1. at[m] = [mode |-> text[k], skip |-> skips]
        BY <3>3, <3>6, <3>s
      <4>2. skips \in BOOLEAN
        OBVIOUS
      <4> HIDE DEF skips
      <4> QED
        BY <2>2, <3>4, <3>6, <4>1, <4>2
    <3>7. CASE ~at[i].skip /\ text[i] = text[k]
      <4>1. m \in B
        BY <1>2, <1>w, <2>4, <3>1, <3>2, <3>7
      <4>2. at[m] = IF i # Len(text) /\ text[i + 1] = text[k]
                      THEN [mode |-> text[k], skip |-> TRUE] ELSE ScanStart
        BY <3>3, <3>7, <3>s
      <4>3. CASE i # Len(text) /\ text[i + 1] = text[k]
        <5>1. m \in 1 .. n
          BY <1>0, <2>4, <4>3 DEF n
        <5> QED
          BY <2>2, <2>4, <3>2, <4>1, <4>2, <4>3, <5>1
      <4>4. CASE ~(i # Len(text) /\ text[i + 1] = text[k])
        BY <2>2, <4>1, <4>2, <4>4
      <4> QED
        BY <4>3, <4>4
    <3> QED
      BY <3>3, <3>5, <3>6, <3>7
  <2> QED
    BY <2>6, <2>8, <2>9, <2>10
<1>6. Free(p) \/ Inside(p) \/ Doubled(p)
  <2>1. p \in 1 .. n + 1
    BY <1>0, <1>3
  <2> HIDE DEF Free, Inside, Doubled
  <2> QED
    BY <1>5, <2>1
<1>7. ~Doubled(p)
  BY <1>3 DEF Quotes
<1>8. ~Inside(p)
  <2> SUFFICES ASSUME NEW k \in B, Within(text, at, k, p) PROVE FALSE
    OBVIOUS
  <2>1. p \in k + 1 .. p /\ text[k] \in Quotes
    BY <1>0, <1>3 DEF Within, n
  <2>2. at[p].mode = text[k]
    BY <2>1 DEF Within
  <2> QED
    BY <1>3, <2>1, <2>2 DEF Quotes
<1> QED
  BY <1>6, <1>7, <1>8

\* The scanner of the guard is exact for every text: what it looks at is what is
\* outside the text's literals, so a text is refused for a comment if and only
\* if one starts there, and never for a "#" or "--" within quotes.
THEOREM ScannerExact ==
  \A text \in Seq(STRING) :
    /\ OutsideQuotes(text) = Bare(text)
    /\ hasCommentToken(text) <=> \E i \in Bare(text) : CommentStartsAt(text, i)
<1> SUFFICES ASSUME NEW text \in Seq(STRING)
             PROVE /\ OutsideQuotes(text) = Bare(text)
                   /\ hasCommentToken(text) <=> \E i \in Bare(text) : CommentStartsAt(text, i)
  OBVIOUS
<1>1. OutsideQuotes(text) = Bare(text)
  <2>1. OutsideQuotes(text) \subseteq Bare(text)
    BY OutsideIsBare
  <2>2. Bare(text) \subseteq OutsideQuotes(text)
    BY BareIsOutside
  <2> QED
    BY <2>1, <2>2
<1>2. hasCommentToken(text) <=> \E i \in Bare(text) : CommentStartsAt(text, i)
  BY <1>1 DEF hasCommentToken
<1> QED
  BY <1>1, <1>2

\* A sequence that is not empty and not longer than one.
LEMMA OneLong ==
  ASSUME NEW S, NEW q \in Seq(S), q # <<>>, ~(Len(q) > 1)
  PROVE Len(q) = 1 /\ q[1] \in S
<1>1. Len(q) \in Nat
  OBVIOUS
<1>2. Len(q) >= 1
  OBVIOUS
<1>3. Len(q) <= 1
  BY <1>1
<1>4. q[1] \in S
  BY <1>2
<1>5. \A n \in Nat : n >= 1 /\ n <= 1 => n = 1
  OBVIOUS
<1> QED
  BY <1>1, <1>2, <1>3, <1>4, <1>5, Zenon

\* What Validate lets through: one statement that reads, without INTO or an
\* exclusive lock in any SELECT of its tree, without a comment outside its
\* literals, and bounded unless it aggregates or is a SHOW.
LEMMA GuardLetsReadsThrough ==
  ASSUME NEW s \in Sql, Verdict[s].ok
  PROVE LET stmt == RewrittenSQL(s)
            text == Chars[s]
        IN /\ Len(Parsed[s]) = 1
           /\ stmt.kind \in ReadKinds
           /\ \A k \in 1 .. Len(stmt.selects) :
                ~stmt.selects[k].into /\ stmt.selects[k].lock \in ShareLocks
           /\ \A i \in Bare(text) : ~CommentStartsAt(text, i)
           /\ stmt.limit \/ stmt.kind = "show" \/ isAggregatedSelect(stmt)
<1> DEFINE text == Chars[s]
           stmts == Parsed[s]
           first == stmts[1]
           stmt == RewrittenSQL(s)
<1>1. text \in Seq(STRING) /\ stmts \in Seq(StatementTree)
  BY SqlAssumption
<1>2. Validate(s).ok
  BY DEF Verdict
<1>3. /\ ~hasCommentToken(text) /\ first.kind \in ReadKinds /\ Enter(first) = {}
      /\ stmts # <<>> /\ ~(Len(stmts) > 1)
  BY <1>2 DEF Validate, deny
<1>4. Len(stmts) = 1 /\ first \in StatementTree
  <2>1. stmts # <<>> /\ ~(Len(stmts) > 1)
    BY <1>3
  <2> HIDE DEF stmts
  <2> QED
    BY <1>1, <2>1, OneLong
<1> HIDE DEF first, stmts, text
<1>5. stmt = [first EXCEPT !.limit = @ \/ needsLimitInjection(first)]
  BY DEF RewrittenSQL, Restore, first, stmts
<1>6. /\ stmt.kind = first.kind /\ stmt.selects = first.selects
      /\ stmt.groupBy = first.groupBy /\ stmt.fields = first.fields
      /\ stmt.limit = (first.limit \/ needsLimitInjection(first))
  BY <1>4, <1>5 DEF StatementTree
<1> HIDE DEF stmt
<1>7. ASSUME NEW k \in 1 .. Len(stmt.selects)
      PROVE ~stmt.selects[k].into /\ stmt.selects[k].lock \in ShareLocks
  <2>1. stmt.selects \in Seq(SelectNode)
    BY <1>4, <1>6 DEF StatementTree
  <2>2. k \in DOMAIN first.selects
    BY <1>6, <2>1
  <2>3. ~Refused(first.selects[k])
    BY <1>3, <2>2 DEF Enter
  <2> QED
    BY <1>6, <2>3 DEF Refused
<1>8. ASSUME NEW i \in Bare(text) PROVE ~CommentStartsAt(text, i)
  BY <1>1, <1>3, BareIsOutside DEF hasCommentToken
<1>9. stmt.limit \/ stmt.kind = "show" \/ isAggregatedSelect(stmt)
  <2>1. isAggregatedSelect(stmt) <=> isAggregatedSelect(first)
    BY <1>6 DEF isAggregatedSelect
  <2>2. first.kind \in {"select", "set_opr", "show"}
    BY <1>3 DEF ReadKinds
  <2> QED
    BY <1>6, <2>1, <2>2 DEF needsLimitInjection
<1> QED
  BY <1>3, <1>4, <1>6, <1>7, <1>8, <1>9 DEF stmt, text, stmts

-----------------------------------------------------------------------------
(* Numbers on the wire.                                                    *)

\* Ulp satisfies the equation that defines it.
LEMMA UlpEquation ==
  \A n \in 0 .. MaxInt64 + 1 : Ulp[n] = IF n < Mantissa THEN 1 ELSE 2 * Ulp[n \div 2]
<1> DEFINE Top == MaxInt64 + 1
           Is(f) == f = [n \in 0 .. Top |-> IF n < Mantissa THEN 1 ELSE 2 * f[n \div 2]]
           Upto(m) == \E f \in [0 .. m -> Nat] :
                        \A n \in 0 .. m : f[n] = IF n < Mantissa THEN 1 ELSE 2 * f[n \div 2]
           T == {m \in 0 .. Top : ~Upto(m)}
<1>0. Top \in Nat /\ Mantissa \in Nat /\ Mantissa > 0
  BY RuntimeAssumption
<1> HIDE DEF Top
<1>1. \A n \in Nat : n > 0 => n \div 2 \in Nat /\ n \div 2 <= n - 1
  OBVIOUS
<1>2. Upto(Top)
  <2> SUFFICES ASSUME T # {} PROVE FALSE
    <3>1. Top \in 0 .. Top
      BY <1>0
    <3> HIDE DEF Upto
    <3> QED
      BY <3>1
  <2>1. PICK m \in T : \A k \in T : m <= k
    <3>1. T \subseteq Nat
      BY <1>0
    <3> HIDE DEF T
    <3> QED
      BY <3>1, LeastNatural
  <2>2. m \in 0 .. Top /\ ~Upto(m)
    BY <2>1
  <2>3. CASE m = 0
    <3> DEFINE f == [n \in 0 .. 0 |-> 1]
    <3>1. f \in [0 .. m -> Nat]
          /\ \A n \in 0 .. m : f[n] = IF n < Mantissa THEN 1 ELSE 2 * f[n \div 2]
      BY <1>0, <2>3
    <3> QED
      BY <2>2, <3>1
  <2>4. CASE m > 0
    <3>1. m - 1 \in 0 .. Top /\ m - 1 \notin T
      <4> HIDE DEF T
      <4> QED
        BY <1>0, <2>1, <2>2, <2>4
    <3>2. Upto(m - 1)
      BY <3>1
    <3> HIDE DEF T
    <3>3. PICK g \in [0 .. m - 1 -> Nat] :
            \A n \in 0 .. m - 1 : g[n] = IF n < Mantissa THEN 1 ELSE 2 * g[n \div 2]
      BY <3>2
    <3> DEFINE v == IF m < Mantissa THEN 1 ELSE 2 * g[m \div 2]
               f == [n \in 0 .. m |-> IF n = m THEN v ELSE g[n]]
    <3>4. m \div 2 \in 0 .. m - 1 /\ \A n \in 0 .. m - 1 : n \div 2 \in 0 .. m - 1
      BY <1>0, <2>2, <2>4
    <3>5. v \in Nat
      BY <3>3, <3>4
    <3>6. f \in [0 .. m -> Nat]
      BY <1>0, <2>2, <2>4, <3>3, <3>5
    <3>7. f[m] = v /\ \A n \in 0 .. m - 1 : f[n] = g[n]
      BY <1>0, <2>2, <2>4
    <3> HIDE DEF f
    <3>8. ASSUME NEW n \in 0 .. m
          PROVE f[n] = IF n < Mantissa THEN 1 ELSE 2 * f[n \div 2]
      <4>1. CASE n = m
        BY <3>4, <3>7, <4>1
      <4>2. CASE n # m
        <5>1. n \in 0 .. m - 1
          BY <1>0, <2>2, <4>2
        <5> QED
          BY <3>3, <3>4, <3>7, <5>1
      <4> QED
        BY <4>1, <4>2
    <3>9. Upto(m)
      BY <3>6, <3>8
    <3> QED
      BY <2>2, <3>9
  <2> QED
    BY <1>0, <2>2, <2>3, <2>4
<1>3. PICK g \in [0 .. Top -> Nat] :
        \A n \in 0 .. Top : g[n] = IF n < Mantissa THEN 1 ELSE 2 * g[n \div 2]
  BY <1>2
<1>4. Is(g)
  <2> DEFINE h == [n \in 0 .. Top |-> IF n < Mantissa THEN 1 ELSE 2 * g[n \div 2]]
  <2>1. \A n \in 0 .. Top : g[n] = h[n]
    BY <1>3
  <2>2. g = [n \in 0 .. Top |-> g[n]] /\ h = [n \in 0 .. Top |-> h[n]]
    BY <1>3
  <2>3. g = h
    <3> HIDE DEF h
    <3> QED
      BY <2>1, <2>2
  <2> QED
    BY <2>3
<1>5. Is(CHOOSE f : Is(f))
  <2> HIDE DEF Is
  <2> QED
    BY <1>4
<1>6. Ulp = CHOOSE f : Is(f)
  BY DEF Ulp, Top
<1>7. Is(Ulp)
  BY <1>5, <1>6
<1> QED
  BY <1>7 DEF Top

\* Neighbouring numbers are one apart up to Mantissa and no further apart than
\* one part in half of Mantissa beyond it.
LEMMA UlpFacts ==
  ASSUME NEW n \in 0 .. MaxInt64 + 1
  PROVE /\ Ulp[n] \in Nat \ {0}
        /\ n < Mantissa => Ulp[n] = 1
        /\ n = Mantissa => Ulp[n] = 2
        /\ n >= Mantissa => Mantissa * Ulp[n] <= 2 * n
<1> DEFINE Top == MaxInt64 + 1
           Good(m) == /\ Ulp[m] \in Nat \ {0}
                      /\ m >= Mantissa => Mantissa * Ulp[m] <= 2 * m
           T == {m \in 0 .. Top : ~Good(m)}
<1>0. Top \in Nat /\ Mantissa \in Nat /\ Mantissa > 0 /\ Mantissa < Top
  BY RuntimeAssumption
<1>1. \A m \in 0 .. Top : Ulp[m] = IF m < Mantissa THEN 1 ELSE 2 * Ulp[m \div 2]
  BY UlpEquation
<1> HIDE DEF Top
<1>2. ASSUME NEW m \in 0 .. Top, m >= Mantissa, Good(m \div 2) PROVE Good(m)
  <2> DEFINE h == m \div 2
             u == Ulp[h]
  <2>1. h \in 0 .. Top /\ 2 * h <= m
    BY <1>0
  <2>2. Ulp[m] = 2 * u
    BY <1>0, <1>1, <1>2
  <2>3. u \in Nat \ {0} /\ (h >= Mantissa => Mantissa * u <= 2 * h)
    BY <1>2
  <2>4. h < Mantissa => u = 1
    BY <1>1, <2>1
  <2> HIDE DEF h, u
  <2>5. Mantissa * u <= m
    <3>1. CASE h < Mantissa
      BY <1>0, <1>2, <2>4, <3>1
    <3>2. CASE h >= Mantissa
      <4>1. Mantissa * u <= 2 * h /\ Mantissa * u \in Nat
        BY <1>0, <2>3, <3>2
      <4> QED
        BY <1>0, <2>1, <4>1
    <3> QED
      BY <1>0, <2>1, <3>1, <3>2
  <2>6. Mantissa * (2 * u) = 2 * (Mantissa * u) /\ Mantissa * u \in Nat
    BY <1>0, <2>3
  <2>7. Mantissa * (2 * u) <= 2 * m
    BY <1>0, <2>5, <2>6
  <2> QED
    BY <2>2, <2>3, <2>7
<1>3. Good(n)
  <2>0. n \in 0 .. Top
    BY DEF Top
  <2> SUFFICES ASSUME T # {} PROVE FALSE
    BY <2>0
  <2>1. PICK m \in T : \A k \in T : m <= k
    <3>1. T \subseteq Nat
      BY <1>0
    <3> HIDE DEF T
    <3> QED
      BY <3>1, LeastNatural
  <2>2. m \in 0 .. Top /\ ~Good(m)
    BY <2>1
  <2>3. m >= Mantissa
    <3>1. ASSUME m < Mantissa PROVE Good(m)
      BY <1>0, <1>1, <2>2, <3>1
    <3> QED
      BY <1>0, <2>2, <3>1
  <2>4. m \div 2 \in 0 .. Top /\ m \div 2 < m
    BY <1>0, <2>2, <2>3
  <2>5. m \div 2 \notin T
    <3> HIDE DEF T
    <3> QED
      BY <1>0, <2>1, <2>2, <2>4
  <2>6. Good(m \div 2)
    BY <2>4, <2>5
  <2> QED
    BY <1>2, <2>2, <2>3, <2>6
<1>4. n < Mantissa => Ulp[n] = 1
  BY <1>1 DEF Top
<1>5. n = Mantissa => Ulp[n] = 2
  <2>1. Mantissa \div 2 \in 0 .. Top /\ Mantissa \div 2 < Mantissa
    BY <1>0
  <2>2. Mantissa \in 0 .. Top
    BY <1>0
  <2> QED
    BY <1>0, <1>1, <2>1, <2>2
<1> QED
  BY <1>3, <1>4, <1>5

\* The bound on the rounding of n: half a unit.
LEMMA HalfUnit ==
  ASSUME NEW M \in Nat, NEW u \in Nat, NEW d \in Nat, NEW n \in Nat,
         2 * d <= u, M * u <= 2 * n
  PROVE M * d <= n
<1>1. PICK e \in Nat : u = 2 * d + e
  <2>1. u - 2 * d \in Nat /\ u = 2 * d + (u - 2 * d)
    OBVIOUS
  <2> QED
    BY <2>1
<1>2. M * u = 2 * (M * d) + M * e
  BY <1>1
<1>3. M * d \in Nat /\ M * e \in Nat
  OBVIOUS
<1> QED
  BY <1>2, <1>3

\* The provers find the division only with a name for the quotient and for the
\* remainder.
LEMMA Quotient ==
  ASSUME NEW n \in Int, NEW u \in Int, u > 0,
         NEW q \in Int, q = n \div u, NEW r \in Int, r = n % u
  PROVE n = u * q + r
OBVIOUS

\* The nearest float64 is exact up to Mantissa, and within half a unit beyond.
LEMMA NearestError ==
  ASSUME NEW n \in 0 .. MaxInt64 + 1
  PROVE /\ Nearest(n) \in Int
        /\ \/ Nearest(n) = n
           \/ n > Mantissa /\ Mantissa * Abs(n - Nearest(n)) <= n
<1> DEFINE u == Ulp[n]
           q == n \div u
           r == n % u
           told == Nearest(n)
<1>0. n \in Nat /\ Mantissa \in Nat /\ Mantissa > 0 /\ Mantissa % 2 = 0
  BY RuntimeAssumption
<1>1. /\ u \in Nat \ {0} /\ (n < Mantissa => u = 1) /\ (n = Mantissa => u = 2)
      /\ (n >= Mantissa => Mantissa * u <= 2 * n)
  BY UlpFacts
<1>2. told = IF 2 * r < u \/ (2 * r = u /\ q % 2 = 0) THEN q * u ELSE (q + 1) * u
  BY DEF Nearest
<1>3. q \in Nat /\ r \in 0 .. u - 1 /\ n = u * q + r
  <2> HIDE DEF u
  <2>1. q \in Nat /\ r \in 0 .. u - 1
    BY <1>0, <1>1
  <2>2. q = n \div u /\ r = n % u
    OBVIOUS
  <2> HIDE DEF q, r
  <2>3. q \in Int /\ r \in Int /\ u \in Int /\ u > 0 /\ n \in Int
    BY <1>0, <1>1, <2>1
  <2>4. n = u * q + r
    BY <2>2, <2>3, Quotient
  <2> QED
    BY <2>1, <2>4
<1>4. n <= Mantissa => r = 0
  <2>1. CASE n < Mantissa
    BY <1>0, <1>1, <2>1
  <2>2. CASE n = Mantissa
    BY <1>0, <1>1, <2>2
  <2> QED
    BY <1>0, <2>1, <2>2
<1> HIDE DEF u, q, r, told
<1>5. q * u = n - r /\ (q + 1) * u = n - r + u
  BY <1>0, <1>1, <1>3
<1>6. told \in Int /\ (r = 0 => told = n) /\ 2 * Abs(n - told) <= u /\ Abs(n - told) \in Nat
  <2>1. CASE 2 * r < u \/ (2 * r = u /\ q % 2 = 0)
    <3>1. told = n - r
      BY <1>2, <1>5, <2>1
    <3> QED
      BY <1>0, <1>1, <1>3, <2>1, <3>1 DEF Abs
  <2>2. CASE ~(2 * r < u \/ (2 * r = u /\ q % 2 = 0))
    <3>1. told = n - r + u
      BY <1>2, <1>5, <2>2
    <3>2. 2 * r >= u
      BY <1>1, <1>3, <2>2
    <3> QED
      BY <1>0, <1>1, <1>3, <3>1, <3>2 DEF Abs
  <2> QED
    BY <2>1, <2>2
<1>7. CASE n <= Mantissa
  BY <1>4, <1>6, <1>7 DEF told
<1>8. CASE n > Mantissa
  <2>1. Mantissa * Abs(n - told) <= n
    <3>1. Mantissa * u <= 2 * n
      BY <1>0, <1>1, <1>8
    <3> DEFINE d == Abs(n - told)
    <3>2. d \in Nat /\ 2 * d <= u
      BY <1>6
    <3> HIDE DEF d
    <3>3. Mantissa * d <= n
      BY <1>0, <1>1, <3>1, <3>2, HalfUnit
    <3> QED
      BY <3>3 DEF d
  <2> QED
    BY <1>6, <1>8, <2>1 DEF told
<1> QED
  BY <1>0, <1>7, <1>8

\* A value of the database, converted twice, is the value on the wire.
LEMMA ValueIsExact ==
  ASSUME NEW v \in SqlValue, NEW row, NEW name \in DOMAIN row,
         row[name] = normalizeValue(v), row[name].as # "bytes"
  PROVE Faithful(v, queryResultToProto(row)[name])
<1> DEFINE x == normalizeValue(v)
           n == v.n
           w == queryResultToProto(row)[name]
<1>0. n \in Int /\ MaxInt64 \in Nat /\ Mantissa \in Nat
  BY RuntimeAssumption DEF SqlValue
<1>1. /\ x.n = n /\ x.as \in {"nil", "float64", "bytes", "int64", "string"}
      /\ x.as = "nil" <=> v.type = "null"
      /\ x.as = "int64" => Integral(v) /\ n \in -MaxInt64 - 1 .. MaxInt64
  <2> DEFINE Fits == Integral(v) /\ n \in -MaxInt64 - 1 .. MaxInt64
  <2>1. /\ x.n = n
        /\ x.as = CASE v.type = "null" -> "nil"
                    [] v.type = "float" -> "float64"
                    [] v.type = "binary" -> "bytes"
                    [] Fits -> "int64"
                    [] OTHER -> "string"
    BY Zenon DEF normalizeValue
  <2>2. Fits => v.type \notin {"null", "float", "binary"}
    BY DEF Integral
  <2> HIDE DEF Fits, x
  <2>3. /\ x.as \in {"nil", "float64", "bytes", "int64", "string"}
        /\ x.as = "nil" <=> v.type = "null"
        /\ x.as = "int64" => Fits
    BY <2>1, <2>2
  <2> QED
    BY <2>1, <2>3 DEF Fits
<1>2. w = CASE x.as = "nil" -> [as |-> "null", n |-> 0]
            [] x.as = "int64" -> [as |-> "number", n |-> Float64(x.n)]
            [] x.as = "float64" -> [as |-> "number", n |-> x.n]
            [] OTHER -> [as |-> "string", n |-> x.n]
  BY DEF queryResultToProto
<1> HIDE DEF x, w
<1>3. /\ w.as = "null" <=> v.type = "null"
      /\ x.as \notin {"nil", "int64"} => w.n = n
      /\ x.as = "int64" => w.as = "number" /\ w.n = Float64(n)
  BY <1>1, <1>2
<1> HIDE DEF n
<1>4. CASE x.as # "int64"
  BY <1>1, <1>3, <1>4 DEF Faithful, w, n
<1>5. CASE x.as = "int64"
  <2>1. CASE n >= 0
    <3>1. n \in 0 .. MaxInt64 + 1 /\ Float64(n) = Nearest(n) /\ Abs(n) = n
      BY <1>0, <1>1, <1>5, <2>1 DEF Float64, Abs
    <3>2. Nearest(n) = n \/ (n > Mantissa /\ Mantissa * Abs(n - Nearest(n)) <= n)
      BY <3>1, NearestError
    <3> QED
      BY <1>1, <1>3, <1>5, <3>1, <3>2 DEF Faithful, w, n
  <2>2. CASE n < 0
    <3> DEFINE m == -n
               t == Nearest(m)
    <3>1. m \in 0 .. MaxInt64 + 1 /\ Float64(n) = -t /\ Abs(n) = m
      BY <1>0, <1>1, <1>5, <2>2 DEF Float64, Abs
    <3>2. /\ t \in Int
          /\ t = m \/ (m > Mantissa /\ Mantissa * Abs(m - t) <= m)
      BY <3>1, NearestError
    <3> HIDE DEF t
    <3>3. Abs(n - (-t)) = Abs(m - t)
      BY <1>0, <3>2 DEF Abs
    <3>4. t = m => -t = n
      BY <1>0, <3>2
    <3> HIDE DEF m
    <3>5. w.n = -t
      BY <1>3, <1>5, <3>1
    <3> QED
      BY <1>1, <1>3, <1>5, <3>1, <3>2, <3>3, <3>4, <3>5 DEF Faithful, w, n
  <2> QED
    BY <1>0, <2>1, <2>2
<1> QED
  BY <1>4, <1>5

\* The column with no later one of its name is the one the map keeps.
LEMMA LastIsKept ==
  ASSUME NEW r \in Results, NEW k \in DOMAIN r.columns,
         \A j \in DOMAIN r.columns : r.columns[j] = r.columns[k] => j <= k
  PROVE /\ LastColumn(r.columns, r.columns[k]) = k
        /\ r.values[k] \in SqlValue
        /\ scanRows(r)[r.columns[k]] = normalizeValue(r.values[k])
<1>1. DOMAIN r.columns \subseteq Nat /\ r.values[k] \in SqlValue
  BY InputsAssumption
<1>2. LastColumn(r.columns, r.columns[k]) = k
  <2> DEFINE Is(i) == /\ r.columns[i] = r.columns[k]
                      /\ \A j \in DOMAIN r.columns : r.columns[j] = r.columns[k] => j <= i
  <2>1. \A i \in DOMAIN r.columns : Is(i) => i = k
    BY <1>1
  <2>2. Is(k)
    OBVIOUS
  <2> QED
    BY <2>1, <2>2 DEF LastColumn
<1> QED
  BY <1>1, <1>2 DEF scanRows

-----------------------------------------------------------------------------
(* The agent on its host.                                                  *)

\* Before its runtime is built, a process neither serves nor answers.
Started == ~up => run # "session" /\ gateway = None

\* ConfigureDatabase between two of its steps: the file has got as far.
StageFits ==
  stage # "idle" =>
    /\ recv = "executing" /\ Kind[command] = ConfigureKind /\ arg \in Dsn
    /\ stage = "truncated" => file = Blank
    /\ stage = "swapping" => file = NormalizeDSN(arg)

\* While a command is handled the gateway is the one it found; only queries are
\* audited.
CommandFits ==
  /\ recv = "executing" => arg \in Arguments(command) /\ gateway = before
  /\ recv = "auditing" => Kind[command] = QueryKind

\* Connections carry one statement; what was sent was let through.
SentFits ==
  /\ gateway # None => ~gateway.multi
  /\ sent # None => sent \in Sql /\ Verdict[sent].ok

\* The rows of an answer are those the database yielded, converted.
RowsFit ==
  HasRows => \E r \in Results : reply.body = [got |-> r, row |-> scanRows(r)]

\* The inductive invariant of the host.
HostInv ==
  /\ HostTypeOK
  /\ AgentInv
  /\ Started
  /\ StageFits
  /\ CommandFits
  /\ SentFits
  /\ RowsFit
  /\ StoredIsServed
  /\ AnswerMatchesGateway

\* A step of the host is a step of the agent, or leaves its variables alone.
LEMMA HostSteps ==
  ASSUME HostNext
  PROVE AgentNext \/ UNCHANGED agentVars
<1>1. CASE BootStep
  BY <1>1 DEF BootStep, BootUnconfigured, BootOpens, BootStops, AgentNext
<1>2. CASE RunStep
  BY <1>2 DEF RunStep, AgentNext
<1>3. CASE StreamStep
  BY <1>3 DEF StreamStep, AgentNext
<1>4. ASSUME NEW c \in Command, executed[c] = 0, ReceiveCommand(c)
      PROVE AgentNext
  BY <1>4 DEF ReceiveCommand, AgentNext
<1>5. CASE CommandStep
  <2> USE DEF Answer, AgentNext, HandlerStep
  <2>1. CASE ConfigureRefused
    BY <2>1 DEF ConfigureRefused
  <2>2. CASE ConfigureOpens \/ WriteStarts \/ WriteEnds
    BY <2>2 DEF ConfigureOpens, WriteStarts, WriteEnds
  <2>3. CASE ConfigureProbes
    BY <2>3 DEF ConfigureProbes
  <2>4. CASE WriteFails \/ swapGateway
    BY <2>4 DEF WriteFails, swapGateway
  <2>5. CASE QueryRefused \/ QueryNotSent \/ QueryRuns
    BY <2>5 DEF QueryRefused, QueryNotSent, QueryRuns
  <2>6. CASE IntrospectSchema
    BY <2>6 DEF IntrospectSchema
  <2> QED
    BY <1>5, <2>1, <2>2, <2>3, <2>4, <2>5, <2>6 DEF CommandStep
<1>6. CASE LogQueryEvent
  BY <1>6 DEF LogQueryEvent, AgentNext, HandlerStep
<1>7. CASE SubmitStep
  BY <1>7 DEF SubmitStep, AgentNext, HandlerStep
<1>8. CASE HostTerminate
  BY <1>8 DEF HostTerminate, AgentNext
<1>9. CASE HostCrash
  BY <1>9 DEF HostCrash, AgentNext
<1> QED
  BY <1>1, <1>2, <1>3, <1>4, <1>5, <1>6, <1>7, <1>8, <1>9 DEF HostNext

\* The agent's invariant is kept by the steps of the host.
LEMMA HostKeepsAgentInv ==
  ASSUME AgentInv, HostNext
  PROVE AgentInv'
<1>1. CASE AgentNext
  BY <1>1, LoopInv, HeartbeatInv, ReceiveInv, ProcessInv DEF AgentNext
<1>2. CASE UNCHANGED agentVars
  BY <1>2 DEF agentVars, AgentInv, AgentTypeOK, Handling, AuditBeforeAnswer,
    NoStragglers, loopVars, dbVars
<1> QED
  BY <1>1, <1>2, HostSteps

\* Normalising is done once.
LEMMA Normal ==
  ASSUME NEW d \in Dsn
  PROVE /\ NormalizeDSN(d) \in Dsn /\ ~NormalizeDSN(d).multi
        /\ NormalizeDSN(NormalizeDSN(d)) = NormalizeDSN(d)
        /\ NormalizeDSN(d) # None
  BY MarkersAssumption DEF NormalizeDSN, Dsn

\* A write that stops short leaves a DSN, or what is none.
LEMMA WriteLeavesType ==
  ASSUME NEW d \in Dsn, NEW left \in WriteLeaves(d)
  PROVE left \in Dsn \cup {Blank, Torn}
<1>1. \A b \in Cut[d.database] : [NormalizeDSN(d) EXCEPT !.database = b] \in Dsn
  BY InputsAssumption DEF Dsn, NormalizeDSN
<1> QED
  BY <1>1, Normal DEF WriteLeaves

\* While no command is handled most of the invariant says nothing.
LEMMA NothingHandled ==
  ASSUME recv' \in {"done", "receiving"}, stage' = "idle"
  PROVE StageFits' /\ CommandFits' /\ RowsFit' /\ AnswerMatchesGateway'
  BY DEF StageFits, CommandFits, RowsFit, HasRows, AnswerMatchesGateway

\* The start of a process: the DSN that is loaded is the one that is served.
LEMMA BootKeepsHostInv ==
  ASSUME HostInv, BootStep, AgentInv'
  PROVE HostInv'
<1>1. ~up /\ run # "session" /\ recv = "done" /\ gateway = None /\ stage = "idle"
  BY DEF BootStep, BootUnconfigured, BootOpens, BootStops, HostInv, Started, AgentInv,
    NoStragglers, StageFits
<1>2. UNCHANGED <<env, file, unsaved, stage, sent, logged>>
  BY DEF BootStep, BootUnconfigured, BootOpens, BootStops, hostVars
<1>3. /\ env \in Deployments /\ file \in Dsn \cup {None, Blank, Torn}
      /\ env.direct \in Dsn \cup {None, Malformed}
      /\ sent \in Sql \cup {None} /\ logged \subseteq Command
  BY InputsAssumption DEF HostInv, HostTypeOK
<1>4. recv' = "done" /\ run' # "session"
  <2>1. CASE UNCHANGED agentVars
    BY <1>1, <2>1 DEF agentVars
  <2>2. CASE BootStops
    BY <1>1, <2>2 DEF BootStops, OpenFails, AfterSession
  <2> QED
    BY <2>1, <2>2 DEF BootStep, BootUnconfigured, BootOpens
<1>5. StageFits' /\ CommandFits' /\ RowsFit' /\ AnswerMatchesGateway'
  BY <1>1, <1>2, <1>4, NothingHandled
<1>6. CASE BootUnconfigured
  <2>1. up' = TRUE /\ gateway' = None /\ LoadedDSN = None
    BY <1>1, <1>6 DEF BootUnconfigured
  <2>2. HostTypeOK'
    BY <1>1, <1>2, <1>3, <2>1 DEF HostInv, HostTypeOK, AgentInv
  <2>4. StoredIsServed'
    BY <1>2, <2>1 DEF StoredIsServed, LoadedDSN, loadOptionalDSNFile
  <2> QED
    BY <1>2, <1>5, <2>1, <2>2, <2>4 DEF HostInv, Started, SentFits
<1>7. CASE BootOpens
  <2>1. /\ up' = TRUE /\ gateway' = NormalizeDSN(LoadedDSN)
        /\ LoadedDSN # None /\ LoadedDSN \notin {Torn, Malformed}
    BY <1>7 DEF BootOpens, Opens, Parses
  <2>2. LoadedDSN \in Dsn
    BY <1>3, <2>1 DEF LoadedDSN, loadOptionalDSNFile
  <2>3. gateway' \in Dsn /\ ~gateway'.multi
    BY <2>1, <2>2, Normal
  <2>4. HostTypeOK'
    BY <1>1, <1>2, <1>3, <2>1, <2>3 DEF HostInv, HostTypeOK, AgentInv
  <2>5. LoadedDSN' = LoadedDSN
    BY <1>2 DEF LoadedDSN, loadOptionalDSNFile
  <2>6. StoredIsServed'
    BY <2>1, <2>2, <2>5 DEF StoredIsServed
  <2> QED
    BY <1>2, <1>5, <2>1, <2>3, <2>4, <2>6 DEF HostInv, Started, SentFits
<1>8. CASE BootStops
  <2>1. up' = FALSE /\ gateway' = None
    BY <1>1, <1>8 DEF BootStops, hostVars, HostInv, HostTypeOK
  <2>2. HostTypeOK'
    BY <1>1, <1>2, <1>3, <2>1 DEF HostInv, HostTypeOK, AgentInv
  <2> QED
    BY <1>2, <1>4, <1>5, <2>1, <2>2 DEF HostInv, Started, SentFits, StoredIsServed
<1> QED
  BY <1>6, <1>7, <1>8 DEF BootStep

\* Run and the stream: no command is at hand, and the gateway is closed only
\* when Run returns.
LEMMA RunKeepsHostInv ==
  ASSUME HostInv, RunStep, AgentInv'
  PROVE HostInv'
<1>1. up /\ recv = "done" /\ stage = "idle"
  <2>1. run # "session" \/ SessionOver
    BY DEF RunStep, OpenFails, OpenSucceeds, LoopStep, SessionEnds, SleepEnds,
      SleepInterrupted
  <2>2. recv = "done"
    BY <2>1 DEF SessionOver, HostInv, AgentInv, NoStragglers
  <2> QED
    BY <2>2 DEF RunStep, HostInv, StageFits
<1>2. /\ UNCHANGED <<env, file, unsaved, up, stage, arg, reply, sent, logged, before>>
      /\ gateway' = IF run' = "stopped" THEN None ELSE gateway
  BY DEF RunStep, Close
<1>3. recv' \in {"done", "receiving"}
  BY <1>1 DEF RunStep, OpenFails, OpenSucceeds, LoopStep, SessionEnds, SleepEnds,
    SleepInterrupted
<1>4. run = "stopped" => FALSE
  BY DEF RunStep, OpenFails, OpenSucceeds, LoopStep, SessionEnds, SleepEnds,
    SleepInterrupted
<1>5. HostTypeOK'
  BY <1>2 DEF HostInv, HostTypeOK, AgentInv
<1>6. StageFits' /\ CommandFits' /\ RowsFit' /\ AnswerMatchesGateway'
  BY <1>1, <1>2, <1>3, NothingHandled
<1>7. Started' /\ SentFits'
  BY <1>1, <1>2 DEF HostInv, Started, SentFits
<1>8. StoredIsServed'
  BY <1>1, <1>2, <1>4 DEF HostInv, StoredIsServed, LoadedDSN, loadOptionalDSNFile
<1> QED
  BY <1>5, <1>6, <1>7, <1>8 DEF HostInv

\* The parts of the invariant that are not about what is handled read these
\* variables only.
LEMMA SameServed ==
  ASSUME HostInv, AgentInv', UNCHANGED <<env, file, unsaved, up, gateway, run, stage, sent>>,
         logged' \subseteq Command
  PROVE HostTypeOK' /\ Started' /\ SentFits' /\ StoredIsServed'
<1>1. HostTypeOK'
  BY DEF HostInv, HostTypeOK, AgentInv
<1> QED
  BY <1>1 DEF HostInv, Started, SentFits, StoredIsServed, LoadedDSN, loadOptionalDSNFile

\* Frames and heartbeats that carry no command, and SIGTERM.
LEMMA StreamKeepsHostInv ==
  ASSUME HostInv, StreamStep \/ HostTerminate, AgentInv'
  PROVE HostInv'
<1>1. UNCHANGED hostVars /\ run' = run
  BY DEF StreamStep, HeartbeatStep, HeartbeatOK, HeartbeatFails, HeartbeatTick,
    HeartbeatStops, ReceiveAck, ReceiveEnds, HostTerminate, Terminate, agentVars
<1>2. HostTypeOK' /\ Started' /\ SentFits' /\ StoredIsServed'
  <2>1. logged \subseteq Command
    BY DEF HostInv, HostTypeOK
  <2> QED
    BY <1>1, <2>1, SameServed DEF hostVars
<1>3. CASE UNCHANGED <<recv, command>>
  <2>1. StageFits' /\ CommandFits' /\ RowsFit' /\ AnswerMatchesGateway'
    BY <1>1, <1>3 DEF hostVars, HostInv, StageFits, CommandFits, RowsFit, HasRows,
      AnswerMatchesGateway, Arguments
  <2> QED
    BY <1>2, <2>1 DEF HostInv
<1>4. CASE recv = "receiving" /\ recv' = "done"
  <2>1. stage' = "idle"
    BY <1>1, <1>4 DEF hostVars, HostInv, StageFits
  <2>2. StageFits' /\ CommandFits' /\ RowsFit' /\ AnswerMatchesGateway'
    BY <1>4, <2>1, NothingHandled
  <2> QED
    BY <1>2, <2>2 DEF HostInv
<1>5. UNCHANGED <<recv, command>> \/ (recv = "receiving" /\ recv' = "done")
  BY DEF StreamStep, HeartbeatStep, HeartbeatOK, HeartbeatFails, HeartbeatTick,
    HeartbeatStops, ReceiveAck, ReceiveEnds, HostTerminate, Terminate, agentVars
<1> QED
  BY <1>3, <1>4, <1>5

\* A command arrives.
LEMMA ArrivalKeepsHostInv ==
  ASSUME HostInv, NEW c \in Command, ReceiveCommand(c), AgentInv'
  PROVE HostInv'
<1>1. /\ UNCHANGED <<env, file, unsaved, up, gateway, stage, reply, sent, logged, run>>
      /\ arg' \in Arguments(c) /\ before' = gateway /\ command' = c /\ recv = "receiving"
      /\ recv' = IF Kind[c] = PingKind THEN "submitting" ELSE "executing"
  BY DEF ReceiveCommand, Receive
<1>2. stage' = "idle"
  BY <1>1 DEF HostInv, StageFits
<1>3. HostTypeOK' /\ Started' /\ SentFits' /\ StoredIsServed'
  <2>1. logged \subseteq Command
    BY DEF HostInv, HostTypeOK
  <2> QED
    BY <1>1, <2>1, SameServed
<1>4. StageFits'
  BY <1>2 DEF StageFits
<1>5. CommandFits'
  BY <1>1 DEF CommandFits, Arguments
<1>6. RowsFit' /\ AnswerMatchesGateway'
  BY <1>1 DEF RowsFit, HasRows, AnswerMatchesGateway, PingKind, QueryKind, ConfigureKind
<1> QED
  BY <1>3, <1>4, <1>5, <1>6 DEF HostInv

\* The answer leaves, or the process dies: nothing is handled any more.
LEMMA LeavingKeepsHostInv ==
  ASSUME HostInv, SubmitStep \/ HostCrash, AgentInv'
  PROVE HostInv'
<1>1. CASE SubmitStep
  <2>1. /\ UNCHANGED <<env, file, unsaved, up, gateway, stage, logged, run>> /\ sent' = None
        /\ recv = "submitting" /\ recv' \in {"done", "receiving"}
    BY <1>1 DEF SubmitStep, SubmitOK, SubmitFails
  <2>2. stage' = "idle"
    BY <2>1 DEF HostInv, StageFits
  <2>3. StageFits' /\ CommandFits' /\ RowsFit' /\ AnswerMatchesGateway'
    BY <2>1, <2>2, NothingHandled
  <2>4. HostTypeOK'
    BY <2>1 DEF HostInv, HostTypeOK, AgentInv
  <2> QED
    BY <2>1, <2>3, <2>4 DEF HostInv, Started, SentFits, StoredIsServed, LoadedDSN,
      loadOptionalDSNFile
<1>2. CASE HostCrash
  <2>1. /\ UNCHANGED <<env, logged>> /\ sent' = None /\ up' = FALSE /\ unsaved' = FALSE
        /\ file' \in (IF stage = "truncated" THEN WriteLeaves(arg) ELSE {file})
        /\ gateway' = None /\ stage' = "idle" /\ recv' = "done" /\ run' = "dialing"
    BY <1>2 DEF HostCrash, Crash, Boot
  <2>2. StageFits' /\ CommandFits' /\ RowsFit' /\ AnswerMatchesGateway'
    BY <2>1, NothingHandled
  <2>3. file' \in Dsn \cup {None, Blank, Torn}
    BY <2>1, WriteLeavesType DEF HostInv, StageFits, HostTypeOK
  <2>4. HostTypeOK'
    BY <2>1, <2>3 DEF HostInv, HostTypeOK, AgentInv
  <2> QED
    BY <2>1, <2>2, <2>4 DEF HostInv, Started, SentFits, StoredIsServed
<1> QED
  BY <1>1, <1>2

\* A query is audited.
LEMMA AuditKeepsHostInv ==
  ASSUME HostInv, LogQueryEvent, AgentInv'
  PROVE HostInv'
<1>1. /\ UNCHANGED <<env, file, unsaved, up, gateway, stage, arg, reply, sent, before, run, command>>
      /\ recv = "auditing" /\ recv' = "submitting"
      /\ logged' \in {logged, logged \cup {command}}
  BY DEF LogQueryEvent, recordQueryAudit
<1>2. command \in Command /\ Kind[command] = QueryKind
  BY <1>1 DEF HostInv, AgentInv, Handling, CommandFits
<1>3. HostTypeOK' /\ Started' /\ SentFits' /\ StoredIsServed'
  <2>1. logged' \subseteq Command
    BY <1>1, <1>2 DEF HostInv, HostTypeOK
  <2> QED
    BY <1>1, <2>1, SameServed
<1>4. StageFits'
  BY <1>1 DEF HostInv, StageFits
<1>5. CommandFits'
  BY <1>1 DEF CommandFits
<1>6. RowsFit'
  BY <1>1, <1>2 DEF HostInv, RowsFit, HasRows
<1>7. AnswerMatchesGateway'
  BY <1>1, <1>2 DEF AnswerMatchesGateway, QueryKind, ConfigureKind
<1> QED
  BY <1>3, <1>4, <1>5, <1>6, <1>7 DEF HostInv

\* A handler has its result: what is owed is that the rows, or the gateway and
\* the file, are as the answer says.
LEMMA Answered ==
  ASSUME HostInv, NEW code, NEW body, Answer(code, body), UNCHANGED <<arg, before>>,
         Kind[command] = QueryKind /\ code = "OK" =>
           \E r \in Results : body = [got |-> r, row |-> scanRows(r)],
         Kind[command] = ConfigureKind =>
           IF code = "OK" THEN gateway' = NormalizeDSN(arg) /\ file' = gateway'
                          ELSE gateway' = before
  PROVE /\ StageFits' /\ CommandFits' /\ RowsFit' /\ AnswerMatchesGateway'
        /\ UNCHANGED <<run, command>> /\ stage' = "idle"
<1>1. /\ UNCHANGED <<run, command>> /\ stage' = "idle"
      /\ recv' = (IF Kind[command] = QueryKind THEN "auditing" ELSE "submitting")
      /\ reply' = [code |-> code, body |-> body]
  BY DEF Answer, Execute, AfterExecute
<1>2. reply'.code = code /\ reply'.body = body
  BY <1>1
<1>3. StageFits'
  BY <1>1 DEF StageFits
<1>4. CommandFits'
  BY <1>1 DEF CommandFits
<1>5. RowsFit'
  BY <1>1, <1>2 DEF RowsFit, HasRows
<1>6. AnswerMatchesGateway'
  BY <1>1, <1>2 DEF AnswerMatchesGateway
<1> QED
  BY <1>1, <1>3, <1>4, <1>5, <1>6

\* A handler that gives up leaves the gateway as it found it, and the file too
\* unless its write failed.
LEMMA FailureKeepsHostInv ==
  ASSUME HostInv, AgentInv', NEW code, code # "OK", Answer(code, None),
         UNCHANGED <<env, up, gateway, arg, sent, logged, before>>,
         \/ unsaved' = TRUE /\ file' \in Dsn \cup {Blank, Torn}
         \/ UNCHANGED <<file, unsaved>> /\ stage \notin {"truncated", "swapping"}
  PROVE HostInv'
<1>1. recv = "executing" /\ gateway = before
  BY DEF Answer, Execute, HostInv, CommandFits
<1>2. /\ StageFits' /\ CommandFits' /\ RowsFit' /\ AnswerMatchesGateway'
      /\ UNCHANGED <<run, command>> /\ stage' = "idle"
  BY <1>1, Answered
<1>3. HostTypeOK'
  BY <1>2 DEF HostInv, HostTypeOK, AgentInv
<1>4. Started' /\ SentFits'
  BY <1>2 DEF HostInv, Started, SentFits
<1>5. StoredIsServed'
  BY <1>2 DEF HostInv, StoredIsServed, LoadedDSN, loadOptionalDSNFile
<1> QED
  BY <1>2, <1>3, <1>4, <1>5 DEF HostInv

\* No error is told as a success.
LEMMA ErrorIsNotOK == \A fault : classifyConfigureDatabaseError(fault) # "OK"
  BY DEF classifyConfigureDatabaseError

\* The steps of ConfigureDatabase.
LEMMA ConfigureKeepsHostInv ==
  ASSUME HostInv, AgentInv',
         \/ ConfigureRefused \/ ConfigureOpens \/ ConfigureProbes
         \/ WriteStarts \/ WriteFails \/ WriteEnds \/ swapGateway
  PROVE HostInv'
<1>1. recv = "executing" /\ Kind[command] = ConfigureKind
  BY DEF ConfigureRefused, ConfigureOpens, ConfigureProbes, WriteStarts, WriteFails,
    WriteEnds, swapGateway, Handles
<1>2. /\ arg \in {d \in Dsn : d.multi} \cup {Blank, Malformed} /\ gateway = before
      /\ logged \subseteq Command
  BY <1>1 DEF HostInv, HostTypeOK, CommandFits, Arguments, ConfigureKind, QueryKind
<1>3. CASE ConfigureRefused
  <2>1. \E code : code # "OK" /\ Answer(code, None)
    BY <1>3, ErrorIsNotOK DEF ConfigureRefused
  <2> QED
    BY <1>3, <2>1, FailureKeepsHostInv DEF ConfigureRefused
\* A step within the handler: only the stage and the file change.
<1>4. ASSUME UNCHANGED <<agentVars, env, up, gateway, arg, reply, sent, logged, before>>,
             stage' # "idle", arg \in Dsn, StageFits', HostTypeOK', StoredIsServed'
      PROVE HostInv'
  <2>1. UNCHANGED <<run, recv, command, up, gateway, arg, reply, sent, before>>
    BY <1>4 DEF agentVars
  <2>2. Started' /\ SentFits'
    BY <2>1 DEF HostInv, Started, SentFits
  <2>3. CommandFits'
    BY <2>1 DEF HostInv, CommandFits, Arguments
  <2>4. RowsFit' /\ AnswerMatchesGateway'
    BY <1>1, <2>1 DEF RowsFit, HasRows, AnswerMatchesGateway
  <2> QED
    BY <1>4, <2>2, <2>3, <2>4 DEF HostInv
<1>5. CASE ConfigureOpens
  <2>1. /\ UNCHANGED <<agentVars, env, file, unsaved, up, gateway, arg, reply, sent, logged, before>>
        /\ stage = "idle" /\ stage' = "probing" /\ arg # Blank /\ arg # Malformed
    BY <1>5 DEF ConfigureOpens, Opens, Parses
  <2>2. arg \in Dsn
    BY <1>2, <2>1
  <2>3. StageFits' /\ HostTypeOK' /\ StoredIsServed'
    BY <1>1, <2>1, <2>2 DEF HostInv, StageFits, HostTypeOK, AgentInv, StoredIsServed,
      LoadedDSN, loadOptionalDSNFile, agentVars
  <2> QED
    BY <1>4, <2>1, <2>2, <2>3
<1>6. CASE ConfigureProbes
  <2>1. stage = "probing" /\ arg \in Dsn
    BY <1>6 DEF ConfigureProbes, HostInv, StageFits
  <2>2. CASE stage' = "writing" /\ UNCHANGED <<agentVars, reply>>
    <3>1. UNCHANGED <<agentVars, env, file, unsaved, up, gateway, arg, reply, sent, logged, before>>
      BY <1>6, <2>2 DEF ConfigureProbes
    <3>2. StageFits' /\ HostTypeOK' /\ StoredIsServed'
      BY <1>1, <2>1, <2>2, <3>1 DEF HostInv, StageFits, HostTypeOK, AgentInv,
        StoredIsServed, LoadedDSN, loadOptionalDSNFile, agentVars
    <3> QED
      BY <1>4, <2>1, <2>2, <3>1, <3>2
  <2>3. ASSUME NEW fault, Answer(classifyConfigureDatabaseError(fault), None)
        PROVE HostInv'
    <3>1. UNCHANGED <<env, file, unsaved, up, gateway, arg, sent, logged, before>>
      BY <1>6 DEF ConfigureProbes
    <3> DEFINE code == classifyConfigureDatabaseError(fault)
    <3>2. code # "OK" /\ Answer(code, None)
      BY <2>3, ErrorIsNotOK
    <3> HIDE DEF code
    <3> QED
      BY <2>1, <3>1, <3>2, FailureKeepsHostInv
  <2> QED
    BY <1>6, <2>2, <2>3 DEF ConfigureProbes
<1>7. CASE WriteStarts
  <2>1. /\ UNCHANGED <<agentVars, env, up, gateway, arg, reply, sent, logged, before>>
        /\ stage' = "truncated" /\ file' = Blank /\ unsaved' = unsaved /\ arg \in Dsn
    BY <1>7 DEF WriteStarts, HostInv, StageFits
  <2>2. StageFits' /\ HostTypeOK'
    BY <1>1, <2>1 DEF HostInv, StageFits, HostTypeOK, AgentInv, agentVars
  <2>3. StoredIsServed'
    BY <2>1 DEF StoredIsServed
  <2> QED
    BY <1>4, <2>1, <2>2, <2>3
<1>8. CASE WriteFails
  <2>1. /\ UNCHANGED <<env, up, gateway, arg, sent, logged, before>>
        /\ Answer("WRITE_CONFIG_FAILED", None)
        /\ \/ UNCHANGED <<file, unsaved>> /\ stage = "writing"
           \/ stage = "truncated" /\ file' \in WriteLeaves(arg) /\ unsaved' = TRUE
    BY <1>8 DEF WriteFails
  <2>2. stage = "truncated" => arg \in Dsn
    BY DEF HostInv, StageFits
  <2> QED
    BY <2>1, <2>2, WriteLeavesType, FailureKeepsHostInv
<1>9. CASE WriteEnds
  <2>1. /\ UNCHANGED <<agentVars, env, up, gateway, arg, reply, sent, logged, before>>
        /\ stage' = "swapping" /\ file' = NormalizeDSN(arg) /\ unsaved' = FALSE /\ arg \in Dsn
    BY <1>9 DEF WriteEnds, HostInv, StageFits
  <2>2. file' \in Dsn
    BY <2>1, Normal
  <2>3. StageFits' /\ HostTypeOK' /\ StoredIsServed'
    BY <1>1, <2>1, <2>2 DEF HostInv, StageFits, HostTypeOK, AgentInv, StoredIsServed,
      agentVars
  <2> QED
    BY <1>4, <2>1, <2>3
<1>10. CASE swapGateway
  <2>1. /\ UNCHANGED <<env, file, unsaved, up, arg, sent, logged, before>> /\ Answer("OK", None)
        /\ gateway' = NormalizeDSN(arg) /\ arg \in Dsn /\ file = NormalizeDSN(arg)
    BY <1>10 DEF swapGateway, HostInv, StageFits
  <2>2. /\ StageFits' /\ CommandFits' /\ RowsFit' /\ AnswerMatchesGateway'
        /\ UNCHANGED <<run, command>> /\ stage' = "idle"
    BY <1>1, <2>1, Answered DEF ConfigureKind, QueryKind
  <2>3. /\ gateway' \in Dsn /\ ~gateway'.multi /\ file' \in Dsn
        /\ NormalizeDSN(file') = gateway'
    BY <2>1, Normal
  <2>4. HostTypeOK'
    BY <2>1, <2>2, <2>3 DEF HostInv, HostTypeOK, AgentInv
  <2>5. up
    BY <1>1 DEF HostInv, Started, AgentInv, NoStragglers
  <2>6. Started' /\ SentFits'
    BY <2>1, <2>3, <2>5 DEF HostInv, Started, SentFits
  <2>7. StoredIsServed'
    <3>1. env'.direct = None => LoadedDSN' = file'
      BY <2>3, MarkersAssumption DEF LoadedDSN, loadOptionalDSNFile
    <3>2. file' # None
      BY <2>3, MarkersAssumption
    <3> QED
      BY <2>3, <3>1, <3>2 DEF StoredIsServed
  <2> QED
    BY <2>2, <2>4, <2>6, <2>7 DEF HostInv
<1> QED
  BY <1>3, <1>5, <1>6, <1>7, <1>8, <1>9, <1>10

\* ExecuteQuery and IntrospectSchema leave file and gateway alone.
LEMMA QueryKeepsHostInv ==
  ASSUME HostInv, AgentInv',
         QueryRefused \/ QueryNotSent \/ QueryRuns \/ IntrospectSchema
  PROVE HostInv'
<1>1. /\ recv = "executing" /\ Kind[command] \in {QueryKind, IntrospectKind}
      /\ stage = "idle" /\ Kind[command] # ConfigureKind
      /\ UNCHANGED <<env, file, unsaved, up, gateway, arg, logged, before>>
  BY DEF QueryRefused, QueryNotSent, QueryRuns, IntrospectSchema, Handles, HostInv,
    StageFits, QueryKind, IntrospectKind, ConfigureKind
<1>2. ASSUME NEW code, NEW body, Answer(code, body),
             Kind[command] = QueryKind /\ code = "OK" =>
               \E r \in Results : body = [got |-> r, row |-> scanRows(r)],
             sent' = sent \/ (sent' \in Sql /\ Verdict[sent'].ok)
      PROVE HostInv'
  <2>1. /\ StageFits' /\ CommandFits' /\ RowsFit' /\ AnswerMatchesGateway'
        /\ UNCHANGED <<run, command>> /\ stage' = "idle"
    BY <1>1, <1>2, Answered
  <2>2. HostTypeOK'
    BY <1>1, <1>2, <2>1 DEF HostInv, HostTypeOK, AgentInv
  <2>3. Started' /\ StoredIsServed'
    BY <1>1, <2>1 DEF HostInv, Started, StoredIsServed, LoadedDSN, loadOptionalDSNFile
  <2>4. SentFits'
    BY <1>1, <1>2 DEF HostInv, SentFits
  <2> QED
    BY <2>1, <2>2, <2>3, <2>4 DEF HostInv
<1>3. CASE QueryRefused
  <2>1. sent' = sent /\ \E code : code # "OK" /\ Answer(code, None)
    BY <1>3 DEF QueryRefused
  <2> QED
    BY <1>2, <2>1
<1>4. CASE QueryNotSent
  <2>1. sent' = sent /\ Answer("UNSPECIFIED", None)
    BY <1>4 DEF QueryNotSent
  <2> QED
    BY <1>2, <2>1
<1>5. CASE QueryRuns
  <2>1. sent' = arg /\ Verdict[arg].ok /\ Kind[command] = QueryKind
    BY <1>5 DEF QueryRuns, Handles
  <2>2. sent' \in Sql /\ Verdict[sent'].ok
    BY <1>1, <2>1 DEF HostInv, CommandFits, Arguments
  <2>3. \/ Answer("UNSPECIFIED", None)
        \/ \E r \in Results : Answer("OK", [got |-> r, row |-> scanRows(r)])
    BY <1>5 DEF QueryRuns
  <2>4. CASE Answer("UNSPECIFIED", None)
    BY <1>2, <2>2, <2>4
  <2>5. ASSUME NEW r \in Results, Answer("OK", [got |-> r, row |-> scanRows(r)])
        PROVE HostInv'
    BY <1>2, <2>2, <2>5
  <2> QED
    BY <2>3, <2>4, <2>5
<1>6. CASE IntrospectSchema
  <2>1. sent' = sent /\ Kind[command] # QueryKind /\ \E code, body : Answer(code, body)
    BY <1>6 DEF IntrospectSchema, Handles, QueryKind, IntrospectKind
  <2> QED
    BY <1>2, <2>1
<1> QED
  BY <1>3, <1>4, <1>5, <1>6

\* A process that has just started, on a host with or without a file.
LEMMA HostInitInv == HostInit => HostInv
<1> SUFFICES ASSUME HostInit PROVE HostInv
  OBVIOUS
<1>1. AgentInv
  BY AgentInitInv DEF HostInit
<1>2. run = "dialing" /\ recv = "done"
  BY DEF HostInit, AgentInit
<1>3. file \in Dsn \cup {None}
  <2>1. \A b \in Database : [database |-> b, multi |-> TRUE] \in Dsn
    BY DEF Dsn
  <2>2. file = None \/ \E b \in Database : file = [database |-> b, multi |-> TRUE]
    BY DEF HostInit
  <2> QED
    BY <2>1, <2>2
<1>4. HostTypeOK
  BY <1>1, <1>3 DEF HostInit, HostTypeOK, AgentInv
<1>5. Started /\ StageFits /\ CommandFits /\ SentFits
  BY <1>2 DEF HostInit, Started, StageFits, CommandFits, SentFits
<1>6. RowsFit /\ StoredIsServed /\ AnswerMatchesGateway
  BY <1>2 DEF HostInit, RowsFit, HasRows, StoredIsServed, AnswerMatchesGateway
<1> QED
  BY <1>1, <1>4, <1>5, <1>6 DEF HostInv

\* The host keeps its invariant: stages of a configuration, the gateway a command
\* found, the texts sent and the rows read make the four properties inductive.
THEOREM HostInvariance == HostSpec => []HostInv
<1>1. HostInit => HostInv
  BY HostInitInv
<1>2. HostInv /\ [HostNext]_allVars => HostInv'
  <2> SUFFICES ASSUME HostInv, [HostNext]_allVars
               PROVE HostInv'
    OBVIOUS
  <2>1. CASE UNCHANGED allVars
    <3>1. UNCHANGED agentVars /\ UNCHANGED hostVars
      BY <2>1 DEF allVars
    <3>2. AgentInv'
      BY <3>1 DEF agentVars, loopVars, dbVars, HostInv, AgentInv, AgentTypeOK, Handling,
        AuditBeforeAnswer, NoStragglers
    <3>3. UNCHANGED <<run, recv, command>>
      BY <3>1 DEF agentVars
    <3>4. HostTypeOK' /\ Started' /\ SentFits' /\ StoredIsServed'
      <4>1. logged \subseteq Command
        BY DEF HostInv, HostTypeOK
      <4> QED
        BY <3>1, <3>2, <3>3, <4>1, SameServed DEF hostVars
    <3>5. StageFits' /\ CommandFits' /\ RowsFit' /\ AnswerMatchesGateway'
      BY <3>1, <3>3 DEF hostVars, HostInv, StageFits, CommandFits, RowsFit, HasRows,
        AnswerMatchesGateway, Arguments
    <3> QED
      BY <3>2, <3>4, <3>5 DEF HostInv
  <2>2. CASE HostNext
    <3>1. AgentInv'
      BY <2>2, HostKeepsAgentInv DEF HostInv
    <3> QED
      BY <2>2, <3>1, BootKeepsHostInv, RunKeepsHostInv, StreamKeepsHostInv,
        ArrivalKeepsHostInv, ConfigureKeepsHostInv, QueryKeepsHostInv,
        AuditKeepsHostInv, LeavingKeepsHostInv
      DEF HostNext, CommandStep
  <2> QED
    BY <2>1, <2>2
<1> QED
  BY <1>1, <1>2, PTL DEF HostSpec

\* The variables of the host keep their types.
THEOREM HostTypeCorrect == HostSpec => []HostTypeOK
<1>1. HostInv => HostTypeOK
  BY DEF HostInv
<1> QED
  BY <1>1, HostInvariance, PTL

\* The database an agent serves is the one it would serve after a restart, unless
\* the last write of its DSN failed.
THEOREM StoredServed == HostSpec => []StoredIsServed
<1>1. HostInv => StoredIsServed
  BY DEF HostInv
<1> QED
  BY <1>1, HostInvariance, PTL

\* What the control plane is told of a configuration is what the host did.
THEOREM AnswersMatch == HostSpec => []AnswerMatchesGateway
<1>1. HostInv => AnswerMatchesGateway
  BY DEF HostInv
<1> QED
  BY <1>1, HostInvariance, PTL

\* Whatever SQL arrives, what reaches MySQL is one bounded statement that reads.
THEOREM ReadsOnly == HostSpec => []OnlyReadsReachMySQL
<1>1. HostInv => OnlyReadsReachMySQL
  <2> SUFFICES ASSUME HostInv PROVE OnlyReadsReachMySQL
    OBVIOUS
  <2>1. /\ gateway # None => ~gateway.multi
        /\ sent # None => sent \in Sql /\ Verdict[sent].ok
    BY DEF HostInv, SentFits
  <2> QED
    BY <2>1, GuardLetsReadsThrough DEF OnlyReadsReachMySQL
<1> QED
  BY <1>1, HostInvariance, PTL

\* An answer holds, under every column name, what the last column of that name
\* held, or its nearest float64.
THEOREM RowsExact == HostSpec => []RowsAreExact
<1>1. HostInv => RowsAreExact
  <2> SUFFICES ASSUME HostInv, HasRows, Encodes(reply.body.row) PROVE RowsAreExact
    BY DEF RowsAreExact
  <2>1. PICK r \in Results : reply.body = [got |-> r, row |-> scanRows(r)]
    BY DEF HostInv, RowsFit
  <2>2. reply.body.got = r /\ reply.body.row = scanRows(r)
    BY <2>1
  <2> DEFINE told == queryResultToProto(scanRows(r))
  <2>3. DOMAIN scanRows(r) = {r.columns[k] : k \in DOMAIN r.columns}
    BY DEF scanRows
  <2>4. DOMAIN told = {r.columns[k] : k \in DOMAIN r.columns}
    BY <2>3 DEF queryResultToProto
  <2>5. ASSUME NEW k \in DOMAIN r.columns,
               \A j \in DOMAIN r.columns : r.columns[j] = r.columns[k] => j <= k
        PROVE Faithful(r.values[k], told[r.columns[k]])
    <3>1. /\ r.values[k] \in SqlValue
          /\ scanRows(r)[r.columns[k]] = normalizeValue(r.values[k])
      BY <2>5, LastIsKept
    <3>2. r.columns[k] \in DOMAIN scanRows(r) /\ scanRows(r)[r.columns[k]].as # "bytes"
      BY <2>2, <2>3 DEF Encodes
    <3> QED
      BY <3>1, <3>2, ValueIsExact
  <2> HIDE DEF told
  <2> QED
    BY <2>2, <2>4, <2>5 DEF RowsAreExact, told
<1> QED
  BY <1>1, HostInvariance, PTL

\* An agent on its host behaves as the agent of EdgeAgent, whatever the runtime
\* answers: what is proved of the one holds of the other.
THEOREM HostImplementsAgent == HostSpec => AgentSpec
<1>1. HostInit => AgentInit
  BY DEF HostInit
<1>2. [HostNext]_allVars => [AgentNext]_agentVars
  BY HostSteps DEF allVars
<1> QED
  BY <1>1, <1>2, PTL DEF HostSpec, AgentSpec

\* In particular no answer leaves a host before its audit entry is attempted, and
\* nothing of one session still runs in the next.
THEOREM HostAuditsFirst == HostSpec => [](AuditBeforeAnswer /\ NoStragglers)
  BY HostImplementsAgent, AuditFirst, SessionsDoNotOverlap, PTL
=============================================================================
