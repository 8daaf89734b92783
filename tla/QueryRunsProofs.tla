-------------------------- MODULE QueryRunsProofs --------------------------
(***************************************************************************)
(* What AskQuestion tells and what it records agree, for any number of     *)
(* concurrent questions, owners and examples.                              *)
(***************************************************************************)
EXTENDS QueryRuns, TLAPS

Preparing == {"idle", "approved", "draft", "create"}
Looping == {"generate", "guard", "execute"}

(* What holds while a request is under way.  The outcome is only written   *)
(* from "succeed" and "fail", where the attempts already tell the story,   *)
(* and the row is "running" all the way there.                             *)
Phase(r) ==
  /\ pc[r] # "returned" => reply[r] = "none"
  /\ pc[r] \in Preparing => status[r] = "none" /\ attempts[r] = <<>>
  /\ pc[r] = "examples" => attempts[r] = <<>>
  /\ pc[r] \in {"examples", "summarize", "succeed", "fail"} \cup Looping
       => status[r] = "running"
  /\ pc[r] \in Looping =>
       /\ Len(attempts[r]) < maxAttempts
       /\ \A k \in 1 .. Len(attempts[r]) : attempts[r][k] \in Retryable
  /\ pc[r] \in {"summarize", "succeed"} =>
       RetriesInOrder(attempts[r]) /\ EndsIn(attempts[r], "ok")
  /\ pc[r] = "fail" =>
       RetriesInOrder(attempts[r]) /\ Explains(attempts[r], blame[r])
  /\ status[r] \in {"none", "running"} => recorded[r] = <<>>

(* ReplyMatchesRecord and AttemptsTellTheStory of one request.             *)
Told(r) ==
  /\ reply[r] = "answer" => status[r] = "succeeded"
  /\ reply[r] = "failed" => status[r] = "failed"
  /\ reply[r] \in {"answer", "failed"} => recorded[r] = attempts[r]
  /\ status[r] = "running" /\ pc[r] = "returned"
       => reply[r] \in {"unrecorded", "refused", "lost"}

Story(r) ==
  /\ RetriesInOrder(recorded[r])
  /\ status[r] = "succeeded" => EndsIn(recorded[r], "ok") /\ errorStage[r] = "none"
  /\ status[r] = "failed" => Explains(recorded[r], errorStage[r])

Good(r) == Phase(r) /\ Told(r) /\ Story(r)

IInv ==
  /\ TypeOK
  /\ \A r \in Request : Good(r)

-----------------------------------------------------------------------------
(* Appending an attempt: where it goes, and what stays.                    *)
LEMMA AppendAttempt ==
  ASSUME NEW s \in Seq(Attempt), NEW a \in Attempt
  PROVE  /\ Append(s, a) \in Seq(Attempt)
         /\ Append(s, a) # <<>>
         /\ Len(Append(s, a)) = Len(s) + 1
         /\ Len(s) \in Nat
         /\ Append(s, a)[Len(s) + 1] = a
         /\ \A k \in 1 .. Len(s) : Append(s, a)[k] = s[k]
  OBVIOUS

(* An attempt after nothing but retries leaves the retries in order.       *)
LEMMA LastAttempt ==
  ASSUME NEW s \in Seq(Attempt), NEW a \in Attempt,
         Len(s) < maxAttempts,
         \A k \in 1 .. Len(s) : s[k] \in Retryable
  PROVE  RetriesInOrder(Append(s, a)) /\ EndsIn(Append(s, a), a)
<1> DEFINE t == Append(s, a)
<1>1. /\ Len(t) = Len(s) + 1
      /\ Len(s) \in Nat
      /\ t # <<>>
      /\ t[Len(s) + 1] = a
      /\ \A k \in 1 .. Len(s) : t[k] = s[k]
  BY AppendAttempt
<1> HIDE DEF t
<1>2. Len(t) <= maxAttempts
  BY <1>1 DEF maxAttempts
<1>3. ASSUME NEW k \in 1 .. Len(t), k < Len(t)
      PROVE  t[k] \in Retryable
  <2>1. k \in 1 .. Len(s)
    BY <1>1, <1>3
  <2> QED
    BY <2>1, <1>1
<1>4. t[Len(t)] = a
  BY <1>1
<1> QED
  BY <1>1, <1>2, <1>3, <1>4 DEF RetriesInOrder, EndsIn, t

(* No attempt at all is in order.                                          *)
LEMMA NoAttempt == RetriesInOrder(<<>>)
  BY DEF RetriesInOrder, maxAttempts

(* A request is only concerned by what changes of its own.                 *)
LEMMA Frame ==
  ASSUME NEW q \in Request, Good(q),
         pc'[q] = pc[q], reply'[q] = reply[q], status'[q] = status[q],
         attempts'[q] = attempts[q], recorded'[q] = recorded[q],
         blame'[q] = blame[q], errorStage'[q] = errorStage[q]
  PROVE  Good(q)'
  BY DEF Good, Phase, Told, Story

(* All other requests are as they were.                                    *)
OthersKeep(r) ==
  \A q \in Request \ {r} :
    /\ pc'[q] = pc[q]
    /\ reply'[q] = reply[q]
    /\ status'[q] = status[q]
    /\ attempts'[q] = attempts[q]
    /\ recorded'[q] = recorded[q]
    /\ blame'[q] = blame[q]
    /\ errorStage'[q] = errorStage[q]

(* A step of one request keeps the invariant if it does so for that one.   *)
LEMMA OneRequest ==
  ASSUME IInv, TypeOK', NEW r \in Request, Good(r)', OthersKeep(r)
  PROVE  IInv'
<1>1. ASSUME NEW q \in Request PROVE Good(q)'
  <2>1. CASE q = r
    BY <2>1
  <2>2. CASE q # r
    <3>1. Good(q)
      BY DEF IInv
    <3>2. /\ pc'[q] = pc[q] /\ reply'[q] = reply[q] /\ status'[q] = status[q]
          /\ attempts'[q] = attempts[q] /\ recorded'[q] = recorded[q]
          /\ blame'[q] = blame[q] /\ errorStage'[q] = errorStage[q]
      BY <2>2 DEF OthersKeep
    <3> QED
      BY <3>1, <3>2, Frame
  <2> QED
    BY <2>1, <2>2
<1> QED
  BY <1>1 DEF IInv

(* What Goto does to the request, and to no other.                         *)
LEMMA GotoFacts ==
  ASSUME pc \in [Request -> Label], NEW r \in Request, NEW l \in Label, Goto(r, l)
  PROVE  /\ pc' \in [Request -> Label]
         /\ pc'[r] = l
         /\ \A q \in Request \ {r} : pc'[q] = pc[q]
  BY DEF Goto

\* The same of Return.
LEMMA ReturnFacts ==
  ASSUME pc \in [Request -> Label], reply \in [Request -> Reply],
         NEW r \in Request, NEW a \in Reply, Return(r, a)
  PROVE  /\ pc' \in [Request -> Label]
         /\ pc'[r] = "returned"
         /\ reply' \in [Request -> Reply]
         /\ reply'[r] = a
         /\ \A q \in Request \ {r} : pc'[q] = pc[q] /\ reply'[q] = reply[q]
  BY DEF Return, Label

\* The same of Fail.
LEMMA FailFacts ==
  ASSUME pc \in [Request -> Label], blame \in [Request -> ErrorStage],
         NEW r \in Request, NEW s \in ErrorStage, Fail(r, s)
  PROVE  /\ pc' \in [Request -> Label]
         /\ pc'[r] = "fail"
         /\ blame' \in [Request -> ErrorStage]
         /\ blame'[r] = s
         /\ \A q \in Request \ {r} : pc'[q] = pc[q] /\ blame'[q] = blame[q]
  BY DEF Fail, Label

(* A request that has no run yet and moves on, or is turned away.          *)
LEMMA Preparation ==
  ASSUME IInv, NEW r \in Request, pc[r] \in Preparing,
         \/ (\E l \in Preparing : Goto(r, l)) /\ UNCHANGED reply
         \/ Return(r, "refused"),
         seen' \in [Request -> SUBSET {"draft", "approved"}],
         source' \in [Request -> Source],
         UNCHANGED <<live, attempts, blame, row, review, layers>>
  PROVE  IInv'
<1>1. pc \in [Request -> Label] /\ reply \in [Request -> Reply] /\ Good(r)
  BY DEF IInv, TypeOK
<1>2. /\ pc' \in [Request -> Label]
      /\ reply' \in [Request -> Reply]
      /\ \A q \in Request \ {r} : pc'[q] = pc[q] /\ reply'[q] = reply[q]
      /\ \/ pc'[r] \in Preparing /\ reply'[r] = reply[r]
         \/ pc'[r] = "returned" /\ reply'[r] = "refused"
  <2>1. ASSUME NEW l \in Preparing, Goto(r, l)
        PROVE  /\ pc' \in [Request -> Label]
               /\ pc'[r] = l
               /\ \A q \in Request \ {r} : pc'[q] = pc[q]
    <3>1. l \in Label
      BY DEF Preparing, Label
    <3> QED
      BY <1>1, <2>1, <3>1, GotoFacts
  <2>2. "refused" \in Reply
    BY DEF Reply
  <2> QED
    BY <1>1, <2>1, <2>2, ReturnFacts
<1>3. UNCHANGED <<live, attempts, blame, status, recorded, errorStage, reviewed,
                  feedback, example, promoting, layers>>
  BY DEF row, review
<1>4. TypeOK'
  BY <1>2, <1>3 DEF IInv, TypeOK
<1>5. Good(r)'
  BY <1>1, <1>2, <1>3 DEF Good, Phase, Told, Story, Preparing, Looping
<1>6. OthersKeep(r)
  BY <1>2, <1>3 DEF OthersKeep
<1> QED
  BY <1>3, <1>4, <1>5, <1>6, OneRequest

(* Validation and the two looks at the semantic layers.                    *)
LEMMA PrepareIInv ==
  ASSUME IInv, NEW r \in Request, Ask(r) \/ ReadApproved(r) \/ ReadDraft(r)
  PROVE  IInv'
<1>1. /\ seen \in [Request -> SUBSET {"draft", "approved"}]
      /\ source \in [Request -> Source]
      /\ layers \subseteq {"draft", "approved"}
  BY DEF IInv, TypeOK
<1>2. CASE Ask(r)
  BY <1>1, <1>2, Preparation DEF Ask, At, Preparing
<1>3. CASE ReadApproved(r)
  <2>1. seen' \in [Request -> SUBSET {"draft", "approved"}]
    BY <1>1, <1>3 DEF ReadApproved
  <2>2. source' \in [Request -> Source]
    BY <1>1, <1>3 DEF ReadApproved, Source
  <2>3. \/ (\E l \in Preparing : Goto(r, l)) /\ UNCHANGED reply
        \/ Return(r, "refused")
    BY <1>3 DEF ReadApproved, Preparing
  <2>4. pc[r] \in Preparing /\ UNCHANGED <<live, attempts, blame, row, review, layers>>
    BY <1>3 DEF ReadApproved, At, Preparing
  <2> QED
    BY <2>1, <2>2, <2>3, <2>4, Preparation
<1>4. CASE ReadDraft(r)
  <2>1. source' \in [Request -> Source]
    BY <1>1, <1>4 DEF ReadDraft, Source
  <2>2. \/ (\E l \in Preparing : Goto(r, l)) /\ UNCHANGED reply
        \/ Return(r, "refused")
    BY <1>4 DEF ReadDraft, Preparing
  <2>3. pc[r] \in Preparing /\ UNCHANGED <<live, attempts, blame, row, review, layers>>
    BY <1>4 DEF ReadDraft, At, Preparing
  <2>4. seen' \in [Request -> SUBSET {"draft", "approved"}]
    BY <1>1, <1>4 DEF ReadDraft
  <2> QED
    BY <2>1, <2>2, <2>3, <2>4, Preparation
<1> QED
  BY <1>2, <1>3, <1>4

(* The insert may be there although the asker is told otherwise.           *)
LEMMA CreateIInv ==
  ASSUME IInv, NEW r \in Request, Create(r)
  PROVE  IInv'
<1>1. /\ pc \in [Request -> Label] /\ reply \in [Request -> Reply]
      /\ status \in [Request -> Status]
      /\ Good(r)
  BY DEF IInv, TypeOK
<1>2. UNCHANGED <<live, seen, source, attempts, blame, recorded, errorStage, reviewed,
                  feedback, example, promoting, layers>>
  BY DEF Create, review
<1>3. /\ pc' \in [Request -> Label]
      /\ reply' \in [Request -> Reply]
      /\ \A q \in Request \ {r} : pc'[q] = pc[q] /\ reply'[q] = reply[q]
      /\ \/ pc'[r] = "examples" /\ reply'[r] = reply[r]
         \/ pc'[r] = "returned" /\ reply'[r] = "refused"
  <2>1. "examples" \in Label /\ "refused" \in Reply
    BY DEF Label, Reply
  <2> QED
    BY <1>1, <2>1, GotoFacts, ReturnFacts DEF Create
<1>4. /\ status' \in [Request -> Status]
      /\ status'[r] \in {"running", status[r]}
      /\ pc'[r] = "examples" => status'[r] = "running"
      /\ \A q \in Request \ {r} : status'[q] = status[q]
  BY <1>1, <1>3 DEF Create, InsertRun, Goto, Return, Status
<1>5. TypeOK'
  BY <1>2, <1>3, <1>4 DEF IInv, TypeOK
<1>6. pc[r] = "create"
  BY DEF Create, At
<1>7. Good(r)'
  BY <1>1, <1>2, <1>3, <1>4, <1>6 DEF Good, Phase, Told, Story, Preparing, Looping
<1>8. OthersKeep(r)
  BY <1>2, <1>3, <1>4 DEF OthersKeep
<1> QED
  BY <1>2, <1>5, <1>7, <1>8, OneRequest

(* Examples that cannot be had fail the run before any attempt.            *)
LEMMA TakeExamplesIInv ==
  ASSUME IInv, NEW r \in Request, TakeExamples(r)
  PROVE  IInv'
<1>1. /\ pc \in [Request -> Label] /\ blame \in [Request -> ErrorStage]
      /\ Good(r)
  BY DEF IInv, TypeOK
<1>2. UNCHANGED <<live, seen, source, attempts, reply, status, recorded, errorStage,
                  reviewed, feedback, example, promoting, layers>>
  BY DEF TakeExamples, row, review
<1>3. /\ pc' \in [Request -> Label]
      /\ blame' \in [Request -> ErrorStage]
      /\ \A q \in Request \ {r} : pc'[q] = pc[q] /\ blame'[q] = blame[q]
      /\ pc'[r] = "generate" \/ (pc'[r] = "fail" /\ blame'[r] = "generation")
  <2>1. "generate" \in Label /\ "generation" \in ErrorStage
    BY DEF Label, ErrorStage
  <2> QED
    BY <1>1, <2>1, GotoFacts, FailFacts DEF TakeExamples
<1>4. TypeOK'
  BY <1>2, <1>3 DEF IInv, TypeOK
<1>5. attempts'[r] = <<>> /\ status'[r] = "running" /\ reply'[r] = "none"
  BY <1>1, <1>2 DEF TakeExamples, At, Good, Phase
<1>6. Phase(r)'
  BY <1>1, <1>2, <1>3, <1>5, NoAttempt
     DEF Good, Phase, Preparing, Looping, Explains, maxAttempts
<1>7. Good(r)'
  BY <1>1, <1>2, <1>3, <1>5, <1>6 DEF Good, Told, Story
<1>8. OthersKeep(r)
  BY <1>2, <1>3 DEF OthersKeep
<1> QED
  BY <1>2, <1>4, <1>7, <1>8, OneRequest

(* Every move of the attempt loop: on to the next call, another turn, a    *)
(* failure that is not worth one, or rows.                                 *)
LoopMove(r) ==
  /\ \/ /\ \E l \in Looping : Goto(r, l)
        /\ UNCHANGED <<attempts, blame>>
     \/ \E a \in Retryable : Retry(r, a)
     \/ \E a \in {"no_sql", "agent_error", "denied"} : Record(r, a) /\ Fail(r, Stage(a))
     \/ Record(r, "ok") /\ Goto(r, "summarize") /\ UNCHANGED blame
  /\ UNCHANGED <<live, seen, source, reply, row, review, layers>>

(* A loop that appends at most once a turn stays within its attempts, and  *)
(* leaves it with attempts that tell the story.                            *)
LEMMA LoopMoveIInv ==
  ASSUME IInv, NEW r \in Request, pc[r] \in Looping, LoopMove(r)
  PROVE  IInv'
<1>1. /\ TypeOK
      /\ Good(r)
      /\ Phase(r)
      /\ attempts[r] \in Seq(Attempt)
      /\ Len(attempts[r]) < maxAttempts
      /\ \A k \in 1 .. Len(attempts[r]) : attempts[r][k] \in Retryable
      /\ status[r] = "running"
      /\ reply[r] = "none"
  BY DEF IInv, TypeOK, Good, Phase, Looping
<1>2. \/ pc'[r] \in Looping /\ UNCHANGED <<attempts, blame>>
      \/ \E a \in Retryable :
           /\ Record(r, a) /\ UNCHANGED blame
           /\ pc'[r] = "generate" /\ Len(attempts[r]) + 1 < maxAttempts
      \/ \E a \in Attempt \ {"ok"} :
           /\ Record(r, a) /\ pc'[r] = "fail" /\ blame' = [blame EXCEPT ![r] = Stage(a)]
           /\ a \in Retryable => ~ (Len(attempts[r]) + 1 < maxAttempts)
      \/ Record(r, "ok") /\ pc'[r] = "summarize" /\ UNCHANGED blame
  <2>1. ASSUME NEW l \in Looping, Goto(r, l), UNCHANGED <<attempts, blame>>
        PROVE  pc'[r] \in Looping
    BY <2>1 DEF IInv, TypeOK, Goto
  <2>2. ASSUME NEW a \in Retryable, Retry(r, a)
        PROVE  \/ /\ Record(r, a) /\ UNCHANGED blame
                  /\ pc'[r] = "generate" /\ Len(attempts[r]) + 1 < maxAttempts
               \/ /\ Record(r, a) /\ pc'[r] = "fail"
                  /\ blame' = [blame EXCEPT ![r] = Stage(a)]
                  /\ ~ (Len(attempts[r]) + 1 < maxAttempts)
    BY <1>1, <2>2 DEF TypeOK, Retry, Goto, Fail
  <2>3. ASSUME NEW a \in {"no_sql", "agent_error", "denied"}, Fail(r, Stage(a))
        PROVE  /\ pc'[r] = "fail" /\ blame' = [blame EXCEPT ![r] = Stage(a)]
               /\ a \in Attempt \ {"ok"} /\ a \notin Retryable
    BY <1>1, <2>3 DEF TypeOK, Fail, Attempt, Retryable
  <2>4. Goto(r, "summarize") => pc'[r] = "summarize"
    BY <1>1 DEF TypeOK, Goto
  <2>5. Retryable \subseteq Attempt \ {"ok"}
    BY DEF Retryable, Attempt
  <2> QED
    BY <2>1, <2>2, <2>3, <2>4, <2>5 DEF LoopMove
<1>3. pc' \in [Request -> Label] /\ \A q \in Request \ {r} : pc'[q] = pc[q]
  BY <1>1 DEF LoopMove, TypeOK, Goto, Retry, Fail, Label, Looping
<1>4. blame' \in [Request -> ErrorStage] /\ \A q \in Request \ {r} : blame'[q] = blame[q]
  <2>1. \A a \in Attempt : Stage(a) \in ErrorStage
    BY DEF Stage, ErrorStage, Attempt, Retryable
  <2>2. blame \in [Request -> ErrorStage]
    BY <1>1 DEF TypeOK
  <2>3. UNCHANGED blame \/ \E a \in Attempt : blame' = [blame EXCEPT ![r] = Stage(a)]
    BY <1>2
  <2> QED
    BY <2>1, <2>2, <2>3
<1>5. ASSUME NEW a \in Attempt, Record(r, a)
      PROVE  /\ attempts' \in [Request -> Seq(Attempt)]
             /\ attempts'[r] = Append(attempts[r], a)
             /\ Len(attempts'[r]) = Len(attempts[r]) + 1
             /\ RetriesInOrder(attempts'[r])
             /\ EndsIn(attempts'[r], a)
             /\ \A q \in Request \ {r} : attempts'[q] = attempts[q]
  <2>1. Append(attempts[r], a) \in Seq(Attempt)
    BY <1>1, AppendAttempt
  <2>2. /\ attempts' \in [Request -> Seq(Attempt)]
        /\ attempts'[r] = Append(attempts[r], a)
        /\ \A q \in Request \ {r} : attempts'[q] = attempts[q]
    BY <1>1, <1>5, <2>1 DEF TypeOK, Record
  <2>3. Len(Append(attempts[r], a)) = Len(attempts[r]) + 1
    BY <1>1, AppendAttempt
  <2> QED
    BY <1>1, <2>2, <2>3, LastAttempt
<1>6. /\ attempts' \in [Request -> Seq(Attempt)]
      /\ \A q \in Request : Len(attempts'[q]) <= maxAttempts
      /\ \A q \in Request \ {r} : attempts'[q] = attempts[q]
  <2>1. CASE UNCHANGED attempts
    BY <1>1, <2>1 DEF TypeOK
  <2>2. CASE \E a \in Attempt : Record(r, a)
    <3>1. PICK a \in Attempt : Record(r, a)
      BY <2>2
    <3>2. Len(attempts'[r]) <= maxAttempts
      BY <1>5, <3>1 DEF RetriesInOrder
    <3> QED
      BY <1>1, <1>5, <3>1, <3>2 DEF TypeOK
  <2>3. Retryable \subseteq Attempt /\ "ok" \in Attempt
    BY DEF Retryable, Attempt
  <2> QED
    BY <1>2, <2>1, <2>2, <2>3
<1>7. UNCHANGED <<live, seen, source, reply, status, recorded, errorStage, reviewed,
                  feedback, example, promoting, layers>>
  BY DEF LoopMove, row, review
<1>8. TypeOK'
  BY <1>1, <1>3, <1>4, <1>6, <1>7 DEF TypeOK
<1>9. OthersKeep(r)
  BY <1>3, <1>4, <1>6, <1>7 DEF OthersKeep
<1>10. Phase(r)'
  <2>1. CASE pc'[r] \in Looping /\ UNCHANGED <<attempts, blame>>
    BY <1>1, <1>7, <2>1 DEF Phase, Looping, Preparing
  <2>2. ASSUME NEW a \in Retryable, Record(r, a), pc'[r] = "generate",
               Len(attempts[r]) + 1 < maxAttempts
        PROVE  Phase(r)'
    <3>1. a \in Attempt
      BY DEF Attempt
    <3>2. /\ Len(attempts'[r]) = Len(attempts[r]) + 1
          /\ attempts'[r][Len(attempts'[r])] = a
          /\ \A k \in 1 .. Len(attempts'[r]) :
               k < Len(attempts'[r]) => attempts'[r][k] \in Retryable
      BY <1>5, <2>2, <3>1 DEF RetriesInOrder, EndsIn
    <3>3. Len(attempts'[r]) \in Nat
      BY <1>6
    <3>4. \A k \in 1 .. Len(attempts'[r]) : attempts'[r][k] \in Retryable
      BY <3>2, <3>3
    <3> QED
      BY <1>1, <1>7, <2>2, <3>2, <3>4 DEF Phase, Looping, Preparing
  <2>3. ASSUME NEW a \in Attempt \ {"ok"}, Record(r, a), pc'[r] = "fail",
               blame' = [blame EXCEPT ![r] = Stage(a)],
               a \in Retryable => ~ (Len(attempts[r]) + 1 < maxAttempts)
        PROVE  Phase(r)'
    <3>1. RetriesInOrder(attempts'[r]) /\ EndsIn(attempts'[r], a)
      BY <1>5, <2>3
    <3>2. blame'[r] = Stage(a)
      BY <1>1, <2>3 DEF TypeOK
    <3>3. a \in Retryable => Len(attempts'[r]) = maxAttempts
      <4>1. Len(attempts'[r]) = Len(attempts[r]) + 1 /\ Len(attempts[r]) \in Nat
        BY <1>1, <1>5, <2>3
      <4> QED
        BY <1>1, <2>3, <4>1 DEF maxAttempts
    <3>4. Explains(attempts'[r], blame'[r])
      BY <3>1, <3>2, <3>3 DEF Explains
    <3> QED
      BY <1>1, <1>7, <2>3, <3>1, <3>4 DEF Phase, Looping, Preparing
  <2>4. CASE Record(r, "ok") /\ pc'[r] = "summarize"
    <3>1. RetriesInOrder(attempts'[r]) /\ EndsIn(attempts'[r], "ok")
      BY <1>5, <2>4 DEF Attempt
    <3> QED
      BY <1>1, <1>7, <2>4, <3>1 DEF Phase, Looping, Preparing
  <2> QED
    BY <1>2, <2>1, <2>2, <2>3, <2>4
<1>11. Good(r)'
  BY <1>1, <1>2, <1>7, <1>10 DEF Good, Told, Story, Looping
<1> QED
  BY <1>7, <1>8, <1>9, <1>11, OneRequest

(* The three calls of the attempt loop.                                    *)
LEMMA LoopIInv ==
  ASSUME IInv, NEW r \in Request,
         generateSQL(r) \/ Validate(r) \/ ExecuteQuery(r)
  PROVE  IInv'
<1>1. pc[r] \in Looping
  BY DEF generateSQL, Validate, ExecuteQuery, At, Looping
<1>2. /\ Stage("no_sql") = "generation"
      /\ Stage("denied") = "execution"
      /\ Stage("agent_error") = "execution"
  BY DEF Stage
<1>3. LoopMove(r)
  <2>1. CASE generateSQL(r)
    BY <1>2, <2>1 DEF generateSQL, LoopMove, Looping
  <2>2. CASE Validate(r)
    BY <2>2 DEF Validate, LoopMove, Looping, Retryable
  <2>3. CASE ExecuteQuery(r)
    BY <1>2, <2>3 DEF ExecuteQuery, LoopMove, Looping, Retryable
  <2> QED
    BY <2>1, <2>2, <2>3
<1> QED
  BY <1>1, <1>3, LoopMoveIInv

(* The summary changes nothing that is recorded.                           *)
LEMMA SummarizeIInv ==
  ASSUME IInv, NEW r \in Request, summarize(r)
  PROVE  IInv'
<1>1. pc \in [Request -> Label] /\ Good(r)
  BY DEF IInv, TypeOK
<1>2. UNCHANGED <<live, seen, source, attempts, blame, reply, status, recorded,
                  errorStage, reviewed, feedback, example, promoting, layers>>
  BY DEF summarize, row, review
<1>3. /\ pc' \in [Request -> Label]
      /\ pc[r] = "summarize" /\ pc'[r] = "succeed"
      /\ \A q \in Request \ {r} : pc'[q] = pc[q]
  <2>1. "succeed" \in Label
    BY DEF Label
  <2> QED
    BY <1>1, <2>1, GotoFacts DEF summarize, At
<1>4. TypeOK'
  BY <1>2, <1>3 DEF IInv, TypeOK
<1>5. Good(r)'
  BY <1>1, <1>2, <1>3 DEF Good, Phase, Told, Story, Preparing, Looping
<1>6. OthersKeep(r)
  BY <1>2, <1>3 DEF OthersKeep
<1> QED
  BY <1>2, <1>4, <1>5, <1>6, OneRequest

(* What complete writes.                                                   *)
LEMMA CompleteFacts ==
  ASSUME TypeOK, NEW r \in Request, NEW s \in Status, NEW stage \in ErrorStage,
         complete(r, s, stage)
  PROVE  /\ status' \in [Request -> Status]
         /\ recorded' \in [Request -> Seq(Attempt)]
         /\ errorStage' \in [Request -> ErrorStage]
         /\ status'[r] = s /\ recorded'[r] = attempts[r] /\ errorStage'[r] = stage
         /\ \A q \in Request \ {r} :
              /\ status'[q] = status[q]
              /\ recorded'[q] = recorded[q]
              /\ errorStage'[q] = errorStage[q]
<1>1. /\ status \in [Request -> Status]
      /\ recorded \in [Request -> Seq(Attempt)]
      /\ errorStage \in [Request -> ErrorStage]
      /\ attempts[r] \in Seq(Attempt)
  BY DEF TypeOK
<1> QED
  BY <1>1 DEF complete

(* The run is settled with what the attempts tell, or it stays running and *)
(* the asker is told that it could not be recorded.                        *)
LEMMA SettleIInv ==
  ASSUME IInv, NEW r \in Request, Succeed(r) \/ completeFailedQueryRun(r)
  PROVE  IInv'
<1>1. /\ TypeOK /\ Good(r)
      /\ pc \in [Request -> Label] /\ reply \in [Request -> Reply]
      /\ blame[r] \in ErrorStage
  BY DEF IInv, TypeOK
<1>2. UNCHANGED <<live, seen, source, attempts, blame, reviewed, feedback, example,
                  promoting, layers>>
  BY DEF Succeed, completeFailedQueryRun, review
<1>3. /\ "answer" \in Reply /\ "failed" \in Reply /\ "unrecorded" \in Reply
      /\ "succeeded" \in Status /\ "failed" \in Status /\ "none" \in ErrorStage
  BY DEF Reply, Status, ErrorStage
<1>4. /\ pc' \in [Request -> Label]
      /\ reply' \in [Request -> Reply]
      /\ pc'[r] = "returned"
      /\ \A q \in Request \ {r} : pc'[q] = pc[q] /\ reply'[q] = reply[q]
      /\ \/ /\ pc[r] = "succeed" /\ complete(r, "succeeded", "none")
            /\ reply'[r] \in {"answer", "unrecorded"}
         \/ /\ pc[r] = "fail" /\ complete(r, "failed", blame[r])
            /\ reply'[r] \in {"failed", "unrecorded"}
         \/ UNCHANGED row /\ reply'[r] = "unrecorded"
  <2>1. CASE Succeed(r)
    BY <1>1, <1>3, <2>1, ReturnFacts DEF Succeed, At
  <2>2. CASE completeFailedQueryRun(r)
    BY <1>1, <1>3, <2>2, ReturnFacts DEF completeFailedQueryRun, At
  <2> QED
    BY <2>1, <2>2
<1>5. CASE UNCHANGED row /\ reply'[r] = "unrecorded"
  <2>1. UNCHANGED <<status, recorded, errorStage>>
    BY <1>5 DEF row
  <2>2. TypeOK'
    BY <1>1, <1>2, <1>4, <2>1 DEF TypeOK
  <2>3. Good(r)'
    BY <1>1, <1>2, <1>4, <1>5, <2>1 DEF Good, Phase, Told, Story, Preparing, Looping
  <2>4. OthersKeep(r)
    BY <1>2, <1>4, <2>1 DEF OthersKeep
  <2> QED
    BY <1>2, <2>2, <2>3, <2>4, OneRequest
<1>6. CASE pc[r] = "succeed" /\ complete(r, "succeeded", "none")
                             /\ reply'[r] \in {"answer", "unrecorded"}
  <2>1. RetriesInOrder(attempts[r]) /\ EndsIn(attempts[r], "ok")
    BY <1>1, <1>6 DEF Good, Phase
  <2>2. /\ status' \in [Request -> Status]
        /\ recorded' \in [Request -> Seq(Attempt)]
        /\ errorStage' \in [Request -> ErrorStage]
        /\ status'[r] = "succeeded" /\ recorded'[r] = attempts[r] /\ errorStage'[r] = "none"
        /\ \A q \in Request \ {r} :
             /\ status'[q] = status[q]
             /\ recorded'[q] = recorded[q]
             /\ errorStage'[q] = errorStage[q]
    BY <1>1, <1>3, <1>6, CompleteFacts
  <2>3. TypeOK'
    BY <1>1, <1>2, <1>4, <2>2 DEF TypeOK
  <2>4. Phase(r)' /\ Told(r)'
    BY <1>2, <1>4, <1>6, <2>2 DEF Phase, Told, Preparing, Looping
  <2>5. Story(r)'
    BY <2>1, <2>2 DEF Story
  <2>6. OthersKeep(r)
    BY <1>2, <1>4, <2>2 DEF OthersKeep
  <2> QED
    BY <1>2, <2>3, <2>4, <2>5, <2>6, OneRequest DEF Good
<1>7. CASE pc[r] = "fail" /\ complete(r, "failed", blame[r])
                          /\ reply'[r] \in {"failed", "unrecorded"}
  <2>1. RetriesInOrder(attempts[r]) /\ Explains(attempts[r], blame[r])
    BY <1>1, <1>7 DEF Good, Phase
  <2>2. /\ status' \in [Request -> Status]
        /\ recorded' \in [Request -> Seq(Attempt)]
        /\ errorStage' \in [Request -> ErrorStage]
        /\ status'[r] = "failed" /\ recorded'[r] = attempts[r] /\ errorStage'[r] = blame[r]
        /\ \A q \in Request \ {r} :
             /\ status'[q] = status[q]
             /\ recorded'[q] = recorded[q]
             /\ errorStage'[q] = errorStage[q]
    BY <1>1, <1>3, <1>7, CompleteFacts
  <2>3. TypeOK'
    BY <1>1, <1>2, <1>4, <2>2 DEF TypeOK
  <2>4. Phase(r)' /\ Told(r)'
    BY <1>2, <1>4, <1>7, <2>2 DEF Phase, Told, Preparing, Looping
  <2>5. Story(r)'
    BY <2>1, <2>2 DEF Story
  <2>6. OthersKeep(r)
    BY <1>2, <1>4, <2>2 DEF OthersKeep
  <2> QED
    BY <1>2, <2>3, <2>4, <2>5, <2>6, OneRequest DEF Good
<1> QED
  BY <1>4, <1>5, <1>6, <1>7

(* Steps beside the requests: all of them are as they were.                *)
LEMMA Beside ==
  ASSUME IInv, TypeOK',
         UNCHANGED <<pc, reply, status, attempts, recorded, blame, errorStage>>
  PROVE  IInv'
<1>1. ASSUME NEW q \in Request PROVE Good(q)'
  <2>1. Good(q)
    BY DEF IInv
  <2> QED
    BY <2>1, Frame
<1> QED
  BY <1>1 DEF IInv

\* The end of a context is only noticed by the next call.
LEMMA ExpireIInv ==
  ASSUME IInv, NEW r \in Request, Expire(r)
  PROVE  IInv'
<1>1. live' \subseteq Request
  BY DEF IInv, TypeOK, Expire
<1>2. UNCHANGED <<pc, seen, source, attempts, blame, reply, status, recorded, errorStage,
                  reviewed, feedback, example, promoting, layers>>
  BY DEF Expire, row, review
<1>3. TypeOK'
  BY <1>1, <1>2 DEF IInv, TypeOK
<1> QED
  BY <1>2, <1>3, Beside DEF IInv

(* Feedback, reviews and examples leave the request and its row alone.     *)
LEMMA ReviewIInv ==
  ASSUME IInv, Review
  PROVE  IInv'
<1>1. /\ TypeOK /\ reviewed \subseteq Request
      /\ feedback \in [Request -> {"none", "up", "down", "corrected"}]
      /\ example \in [Example -> {None} \cup [run : Request, active : BOOLEAN]]
      /\ promoting \in [Owner -> Request \cup {None}]
  BY DEF IInv, TypeOK
<1>2. /\ UNCHANGED <<request, row, layers>>
      /\ feedback' \in [Request -> {"none", "up", "down", "corrected"}]
      /\ example' \in [Example -> {None} \cup [run : Request, active : BOOLEAN]]
      /\ promoting' \in [Owner -> Request \cup {None}]
      /\ reviewed' \subseteq Request
  <2>1. ASSUME NEW r \in Request, SubmitFeedback(r) PROVE <1>2!:
    BY <1>1, <2>1 DEF SubmitFeedback, Upsert
  <2>2. ASSUME NEW r \in Request, MarkQueryRunReviewed(r) PROVE <1>2!:
    BY <1>1, <2>2 DEF MarkQueryRunReviewed, SetReviewed
  <2>3. ASSUME NEW o \in Owner, NEW r \in Request, InsertExample(o, r) PROVE <1>2!:
    <3>1. PICK e \in Example : example' = [example EXCEPT ![e] = [run |-> r, active |-> TRUE]]
      BY <2>3 DEF InsertExample, InsertExampleRow
    <3>2. [run |-> r, active |-> TRUE] \in [run : Request, active : BOOLEAN]
      OBVIOUS
    <3>3. example' \in [Example -> {None} \cup [run : Request, active : BOOLEAN]]
      BY <1>1, <3>1, <3>2
    <3> QED
      BY <1>1, <2>3, <3>3 DEF InsertExample
  <2>4. ASSUME NEW o \in Owner, MarkReviewed(o) PROVE <1>2!:
    BY <1>1, <2>4 DEF MarkReviewed, SetReviewed
  <2>5. ASSUME NEW e \in Example, ArchiveCanonicalExample(e) PROVE <1>2!:
    <3>1. example[e] \in [run : Request, active : BOOLEAN]
      BY <1>1, <2>5 DEF ArchiveCanonicalExample, Archive
    <3>2. [example[e] EXCEPT !.active = FALSE] \in [run : Request, active : BOOLEAN]
      BY <3>1
    <3>3. example' = [example EXCEPT ![e] = [example[e] EXCEPT !.active = FALSE]]
      BY <2>5 DEF ArchiveCanonicalExample, Archive
    <3>4. example' \in [Example -> {None} \cup [run : Request, active : BOOLEAN]]
      BY <1>1, <3>2, <3>3
    <3> QED
      BY <1>1, <2>5, <3>4 DEF ArchiveCanonicalExample
  <2> QED
    BY <2>1, <2>2, <2>3, <2>4, <2>5 DEF Review
<1>3. UNCHANGED <<pc, live, seen, source, attempts, blame, reply, status, recorded,
                  errorStage, layers>>
  BY <1>2 DEF request, row
<1>5. TypeOK'
  BY <1>1, <1>2, <1>3 DEF TypeOK
<1> QED
  BY <1>2, <1>3, <1>5, Beside

\* The layers' editors touch no request.
LEMMA LayersIInv ==
  ASSUME IInv, CreateDraftVersion \/ Approve
  PROVE  IInv'
<1>1. layers' \subseteq {"draft", "approved"}
  BY DEF IInv, TypeOK, CreateDraftVersion, Approve
<1>2. UNCHANGED <<pc, live, seen, source, attempts, blame, reply, status, recorded,
                  errorStage, reviewed, feedback, example, promoting>>
  BY DEF CreateDraftVersion, Approve, request, row, review
<1>3. TypeOK'
  BY <1>1, <1>2 DEF IInv, TypeOK
<1> QED
  BY <1>2, <1>3, Beside DEF IInv

(* A crash returns nothing; what it leaves running is lost.                *)
LEMMA CrashIInv ==
  ASSUME IInv, Crash
  PROVE  IInv'
<1>1. /\ pc \in [Request -> Label] /\ reply \in [Request -> Reply]
      /\ \A q \in Request : Good(q)
  BY DEF IInv, TypeOK
<1>2. UNCHANGED <<live, seen, source, attempts, blame, status, recorded, errorStage,
                  reviewed, feedback, example, layers>>
  BY DEF Crash, row
<1>3. /\ pc' \in [Request -> Label]
      /\ reply' \in [Request -> Reply]
      /\ promoting' \in [Owner -> Request \cup {None}]
  BY <1>1 DEF Crash, Label, Reply
<1>4. ASSUME NEW q \in Request
      PROVE  \/ pc'[q] = pc[q] /\ reply'[q] = reply[q]
             \/ pc'[q] = "returned" /\ reply'[q] = "lost"
  BY <1>1 DEF Crash
<1>5. TypeOK'
  BY <1>2, <1>3 DEF IInv, TypeOK
<1>6. ASSUME NEW q \in Request PROVE Good(q)'
  <2>1. Good(q)
    BY <1>1
  <2>2. CASE pc'[q] = pc[q] /\ reply'[q] = reply[q]
    BY <1>2, <2>1, <2>2, Frame
  <2>3. CASE pc'[q] = "returned" /\ reply'[q] = "lost"
    BY <1>2, <2>1, <2>3 DEF Good, Phase, Told, Story, Preparing, Looping
  <2> QED
    BY <1>4, <2>2, <2>3
<1> QED
  BY <1>2, <1>5, <1>6 DEF IInv

(* Nothing has been asked yet.                                             *)
LEMMA InitIInv ==
  ASSUME Init
  PROVE  IInv
<1>1. <<>> \in Seq(Attempt) /\ Len(<<>>) <= maxAttempts
  BY DEF maxAttempts
<1>2. /\ "idle" \in Label /\ "none" \in Source /\ "none" \in Reply
      /\ "none" \in Status /\ "none" \in ErrorStage
  BY DEF Label, Source, Reply, Status, ErrorStage
<1>3. TypeOK
  BY <1>1, <1>2 DEF Init, TypeOK
<1>4. \A r \in Request : Good(r)
  BY NoAttempt DEF Init, Good, Phase, Told, Story, Preparing, Looping
<1> QED
  BY <1>3, <1>4 DEF Init, IInv

-----------------------------------------------------------------------------
(* The invariant that the properties follow from: while a request is under *)
(* way its run is "running" and its attempts are what the outcome it is    *)
(* heading for needs.                                                      *)
THEOREM QueryInvariance == Spec => []IInv
<1>1. Init => IInv
  BY InitIInv
<1>2. IInv /\ [Next]_vars => IInv'
  <2>1. ASSUME IInv, Next PROVE IInv'
    <3>1. ASSUME NEW r \in Request, Ask(r) \/ Step(r) \/ Expire(r) PROVE IInv'
      BY <2>1, <3>1, PrepareIInv, CreateIInv, TakeExamplesIInv, LoopIInv, SummarizeIInv,
         SettleIInv, ExpireIInv DEF Step
    <3> QED
      BY <2>1, <3>1, ReviewIInv, LayersIInv, CrashIInv DEF Next
  <2>2. ASSUME IInv, UNCHANGED vars PROVE IInv'
    <3>1. UNCHANGED <<pc, live, seen, source, attempts, blame, reply, status, recorded,
             errorStage, reviewed, feedback, example, promoting, layers>>
      BY <2>2 DEF vars, request, row, review
    <3>2. TypeOK'
      BY <2>2, <3>1 DEF IInv, TypeOK
    <3> QED
      BY <2>2, <3>1, <3>2, Beside DEF IInv
  <2> QED
    BY <2>1, <2>2
<1> QED
  BY <1>1, <1>2, PTL DEF Spec

(* The attempt loop takes at most two turns, for any number of requests.   *)
THEOREM QueryTypeCorrect == Spec => []TypeOK
<1>1. IInv => TypeOK
  BY DEF IInv
<1> QED
  BY <1>1, QueryInvariance, PTL

(* An asker is told what the history shows.                                *)
THEOREM ToldAsRecorded == Spec => []ReplyMatchesRecord
<1>1. IInv => ReplyMatchesRecord
  BY DEF IInv, Good, Told, ReplyMatchesRecord, askResultToProto, queryAskError,
         scanTenantQueryRun, ListByTenantAndUser, ListMyQueryRuns, Stored
<1> QED
  BY <1>1, QueryInvariance, PTL

(* The recorded attempts account for the recorded outcome.                 *)
THEOREM StoryIsComplete == Spec => []AttemptsTellTheStory
<1>1. IInv => AttemptsTellTheStory
  BY DEF IInv, Good, Story, AttemptsTellTheStory
<1> QED
  BY <1>1, QueryInvariance, PTL

(* complete() finds the run running, so it settles it once, although it    *)
(* has no guard and its errors can hide that it took effect.               *)
THEOREM SettlesOnce == Spec => SettledOnce
<1>1. ASSUME IInv, Next PROVE OutcomeKept
  <2>1. CASE UNCHANGED <<status, recorded>>
    BY <2>1 DEF OutcomeKept
  <2>2. ASSUME NEW r \in Request,
               Create(r) \/ Succeed(r) \/ completeFailedQueryRun(r)
        PROVE  OutcomeKept
    <3>1. status[r] \in {"none", "running"}
      BY <1>1, <2>2 DEF IInv, Good, Phase, Preparing, Create, Succeed,
                        completeFailedQueryRun, At
    <3>2. \A q \in Request \ {r} : status'[q] = status[q] /\ recorded'[q] = recorded[q]
      <4>1. /\ status \in [Request -> Status]
            /\ recorded \in [Request -> Seq(Attempt)]
        BY <1>1 DEF IInv, TypeOK
      <4> QED
        BY <2>2, <4>1 DEF Create, InsertRun, Succeed, completeFailedQueryRun, complete, row
    <3> QED
      BY <3>1, <3>2 DEF OutcomeKept
  <2>3. ASSUME NEW r \in Request,
               \/ Ask(r) \/ ReadApproved(r) \/ ReadDraft(r) \/ TakeExamples(r)
               \/ generateSQL(r) \/ Validate(r) \/ ExecuteQuery(r) \/ summarize(r)
               \/ Expire(r)
        PROVE  UNCHANGED <<status, recorded>>
    BY <2>3 DEF Ask, ReadApproved, ReadDraft, TakeExamples, generateSQL, Validate,
                ExecuteQuery, summarize, Expire, row
  <2>4. Review => UNCHANGED <<status, recorded>>
    BY DEF Review, SubmitFeedback, MarkQueryRunReviewed, InsertExample, MarkReviewed,
           ArchiveCanonicalExample, row
  <2>5. CreateDraftVersion \/ Approve \/ Crash => UNCHANGED <<status, recorded>>
    BY DEF CreateDraftVersion, Approve, Crash, row
  <2> QED
    BY <1>1, <2>1, <2>2, <2>3, <2>4, <2>5 DEF Next, Step
<1>2. ASSUME UNCHANGED vars PROVE OutcomeKept
  BY <1>2 DEF vars, row, OutcomeKept
<1>3. IInv /\ [Next]_vars => [OutcomeKept]_vars
  BY <1>1, <1>2
<1> QED
  BY <1>3, QueryInvariance, PTL DEF Spec, SettledOnce
=============================================================================
