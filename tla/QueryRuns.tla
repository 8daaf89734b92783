----------------------------- MODULE QueryRuns -----------------------------
(***************************************************************************)
(* A question and its query run, from QueryController.AskQuestion          *)
(* (controller/query.go, query_prepare.go, query_pipeline.go) through the  *)
(* row that repository/query_memory.go keeps of it to what is made of it   *)
(* later: feedback, a review, examples (query_review.go).                  *)
(*                                                                         *)
(* A request reads, calls the LLM, calls the agent and writes under one    *)
(* context: once that is done every further call fails, the write that     *)
(* settles the run included.  A write can also fail after it took effect.  *)
(* SQL, rows, prompts and summaries are left out; of the LLM, the guard    *)
(* and the agent only the kind of answer is kept.                          *)
(***************************************************************************)
EXTENDS Naturals, Sequences

CONSTANTS
  Request,        \* AskQuestion calls; the run of a request has its name
  Owner,          \* CreateCanonicalExample calls under way, at most
  Example,        \* ids of tenant_canonical_query_examples
  None

ASSUME QueryAssumption == None \notin Request

maxAttempts == 2

(* What one turn of the attempt loop appends to attempts.                  *)
Retryable == {"rejected", "sql_error"}
Attempt == Retryable \cup {"no_sql", "agent_error", "denied", "ok"}

(* AskQuestionAttempt.Stage                                                *)
Stage(a) ==
  CASE a = "no_sql" -> "generation"
    [] a = "rejected" -> "validation"
    [] OTHER -> "execution"

VARIABLES
  pc,             \* pc[r]: where the request is in AskQuestion
  live,           \* requests whose context is not done
  seen,           \* seen[r]: the layers there were at r's first look at them
  source,         \* source[r]: promptCtx.source
  attempts,       \* attempts[r] of the pipeline
  blame,          \* blame[r]: errorStage handed to failAskQuestion
  reply,          \* reply[r]: what AskQuestion returned
  status,         \* status[r] of the run, "none" before its insert
  recorded,       \* recorded[r]: attempts_json
  errorStage,     \* errorStage[r]: error_stage
  reviewed,       \* runs with reviewed_at set
  feedback,       \* feedback[r]: the asker's latest one
  example,        \* example[e]: [run, active], or None
  promoting,      \* promoting[o]: the run o has inserted an example for
  layers          \* statuses of the layers of the latest schema version

request == <<pc, live, seen, source, attempts, blame, reply>>
row == <<status, recorded, errorStage>>
review == <<reviewed, feedback, example, promoting>>
vars == <<request, row, review, layers>>

Init ==
  /\ pc = [r \in Request |-> "idle"]
  /\ live = Request
  /\ seen = [r \in Request |-> {}]
  /\ source = [r \in Request |-> "none"]
  /\ attempts = [r \in Request |-> <<>>]
  /\ blame = [r \in Request |-> "none"]
  /\ reply = [r \in Request |-> "none"]
  /\ status = [r \in Request |-> "none"]
  /\ recorded = [r \in Request |-> <<>>]
  /\ errorStage = [r \in Request |-> "none"]
  /\ reviewed = {}
  /\ feedback = [r \in Request |-> "none"]
  /\ example = [e \in Example |-> None]
  /\ promoting = [o \in Owner |-> None]
  /\ layers \in {{}, {"draft"}, {"approved"}, {"draft", "approved"}}

-----------------------------------------------------------------------------
(* Moves of a request.                                                     *)

At(r, label) == pc[r] = label

Goto(r, label) == pc' = [pc EXCEPT ![r] = label]

(* AskQuestion returns; nothing of the request is left.                    *)
Return(r, answer) ==
  /\ pc' = [pc EXCEPT ![r] = "returned"]
  /\ reply' = [reply EXCEPT ![r] = answer]

(* failAskQuestion is called for this stage.                               *)
Fail(r, stage) ==
  /\ pc' = [pc EXCEPT ![r] = "fail"]
  /\ blame' = [blame EXCEPT ![r] = stage]

Record(r, a) == attempts' = [attempts EXCEPT ![r] = Append(@, a)]

\* Fault: only the attempt that gives up is counted.
Retry_Uncounted(r, a) ==
  IF Len(attempts[r]) + 1 < maxAttempts
    THEN Goto(r, "generate") /\ UNCHANGED <<attempts, blame>>
    ELSE Record(r, a) /\ Fail(r, Stage(a))

(* The next turn of the loop, or its end.                                  *)
Retry(r, a) ==
  /\ Record(r, a)
  /\ IF Len(attempts[r]) + 1 < maxAttempts
       THEN Goto(r, "generate") /\ UNCHANGED blame
       ELSE Fail(r, Stage(a))

-----------------------------------------------------------------------------
(* Preparation.                                                            *)

(* validateAskQuestionRequest: the question, the membership, the schema.   *)
Ask(r) ==
  /\ At(r, "idle")
  /\ \/ r \in live /\ Goto(r, "approved") /\ UNCHANGED reply
     \/ Return(r, "refused")
  /\ UNCHANGED <<live, seen, source, attempts, blame, row, review, layers>>

LatestApprovedBySchemaVersion == "approved" \in layers
LatestDraftBySchemaVersion == "draft" \in layers

(* resolvePromptContext looks for an approved layer ...                    *)
ReadApproved(r) ==
  /\ At(r, "approved")
  /\ \/ /\ r \in live
        /\ seen' = [seen EXCEPT ![r] = layers]
        /\ IF LatestApprovedBySchemaVersion
             THEN source' = [source EXCEPT ![r] = "approved"] /\ Goto(r, "create")
             ELSE Goto(r, "draft") /\ UNCHANGED source
        /\ UNCHANGED reply
     \/ Return(r, "refused") /\ UNCHANGED <<seen, source>>
  /\ UNCHANGED <<live, attempts, blame, row, review, layers>>

(* ... and then, in a query of its own, for a draft.                       *)
ReadDraft(r) ==
  /\ At(r, "draft")
  /\ \/ /\ r \in live
        /\ source' = [source EXCEPT
                        ![r] = IF LatestDraftBySchemaVersion THEN "draft" ELSE "raw_schema"]
        /\ Goto(r, "create")
        /\ UNCHANGED reply
     \/ Return(r, "refused") /\ UNCHANGED source
  /\ UNCHANGED <<live, seen, attempts, blame, row, review, layers>>

InsertRun(r) == status' = [status EXCEPT ![r] = "running"]

(* The insert of the run.  It may commit and still be reported as failed.  *)
Create(r) ==
  /\ At(r, "create")
  /\ \/ /\ r \in live
        /\ InsertRun(r)
        /\ \/ Goto(r, "examples") /\ UNCHANGED reply
           \/ Return(r, "refused")
     \/ Return(r, "refused") /\ UNCHANGED status
  /\ UNCHANGED <<live, seen, source, attempts, blame, recorded, errorStage,
                 review, layers>>

(* The search for examples ran beside all of the above; what it found, or  *)
(* its error, is only looked at now.                                       *)
TakeExamples(r) ==
  /\ At(r, "examples")
  /\ \/ Goto(r, "generate") /\ UNCHANGED blame
     \/ Fail(r, "generation")
  /\ UNCHANGED <<live, seen, source, attempts, reply, row, review, layers>>

-----------------------------------------------------------------------------
(* The pipeline.                                                           *)

generateSQL(r) ==
  /\ At(r, "generate")
  /\ \/ r \in live /\ Goto(r, "guard") /\ UNCHANGED <<attempts, blame>>
     \/ Record(r, "no_sql") /\ Fail(r, "generation")
  /\ UNCHANGED <<live, seen, source, reply, row, review, layers>>

(* sqlguard.Validate needs no context.                                     *)
Validate(r) ==
  /\ At(r, "guard")
  /\ \/ Goto(r, "execute") /\ UNCHANGED <<attempts, blame>>
     \/ Retry(r, "rejected")
  /\ UNCHANGED <<live, seen, source, reply, row, review, layers>>

\* Fault: permission_denied is retried like any other error.
ExecuteQuery_RetriesDenied(r) ==
  /\ At(r, "execute")
  /\ \/ r \in live /\ Record(r, "ok") /\ Goto(r, "summarize") /\ UNCHANGED blame
     \/ r \in live /\ Retry(r, "denied")
     \/ r \in live /\ Retry(r, "sql_error")
     \/ Record(r, "agent_error") /\ Fail(r, "execution")
  /\ UNCHANGED <<live, seen, source, reply, row, review, layers>>

(* AgentSessionManager.ExecuteQuery: the agent's rows, its permission_denied *)
(* error, another error of the database, or no answer.                     *)
ExecuteQuery(r) ==
  /\ At(r, "execute")
  /\ \/ r \in live /\ Record(r, "ok") /\ Goto(r, "summarize") /\ UNCHANGED blame
     \/ r \in live /\ Record(r, "denied") /\ Fail(r, "execution")
     \/ r \in live /\ Retry(r, "sql_error")
     \/ Record(r, "agent_error") /\ Fail(r, "execution")
  /\ UNCHANGED <<live, seen, source, reply, row, review, layers>>

(* A summary that fails is only a warning.                                 *)
summarize(r) ==
  /\ At(r, "summarize")
  /\ Goto(r, "succeed")
  /\ UNCHANGED <<live, seen, source, attempts, blame, reply, row, review, layers>>

(* complete: one UPDATE that overwrites whatever outcome the row has.      *)
complete(r, s, stage) ==
  /\ status' = [status EXCEPT ![r] = s]
  /\ recorded' = [recorded EXCEPT ![r] = attempts[r]]
  /\ errorStage' = [errorStage EXCEPT ![r] = stage]

(* CompleteSucceeded, and the answer only if that went well.               *)
Succeed(r) ==
  /\ At(r, "succeed")
  /\ \/ /\ r \in live
        /\ complete(r, "succeeded", "none")
        /\ \/ Return(r, "answer")
           \/ Return(r, "unrecorded")
     \/ Return(r, "unrecorded") /\ UNCHANGED row
  /\ UNCHANGED <<live, seen, source, attempts, blame, review, layers>>

\* Fault: the error of CompleteFailed is dropped.
completeFailedQueryRun_IgnoresError(r) ==
  /\ At(r, "fail")
  /\ \/ r \in live /\ complete(r, "failed", blame[r])
     \/ UNCHANGED row
  /\ Return(r, "failed")
  /\ UNCHANGED <<live, seen, source, attempts, blame, review, layers>>

(* CompleteFailed under the request's own context; the reason for the      *)
(* failure is only returned if that went well.                             *)
completeFailedQueryRun(r) ==
  /\ At(r, "fail")
  /\ \/ /\ r \in live
        /\ complete(r, "failed", blame[r])
        /\ \/ Return(r, "failed")
           \/ Return(r, "unrecorded")
     \/ Return(r, "unrecorded") /\ UNCHANGED row
  /\ UNCHANGED <<live, seen, source, attempts, blame, review, layers>>

(* The attempts the asker is shown with an answer, and in the detail of an *)
(* error, which those from before the insert of the run do not have.       *)
askResultToProto(r) == attempts[r]
queryAskError(r) == IF reply[r] = "refused" THEN <<>> ELSE askResultToProto(r)

(* The route's deadline passes or the browser goes away.                   *)
Expire(r) ==
  /\ r \in live
  /\ pc[r] \notin {"idle", "returned"}
  /\ live' = live \ {r}
  /\ UNCHANGED <<pc, seen, source, attempts, blame, reply, row, review, layers>>

-----------------------------------------------------------------------------
(* Feedback, review and examples.                                          *)

Stored(r) == status[r] # "none"

(* The statements of the repositories.                                     *)
Upsert(r, f) == feedback' = [feedback EXCEPT ![r] = f]

SetReviewed(r) == reviewed' = reviewed \cup {r}

InsertExampleRow(r) ==
  \E e \in Example :
    /\ example[e] = None
    /\ example' = [example EXCEPT ![e] = [run |-> r, active |-> TRUE]]

(* Only an example that is not archived yet.                               *)
Archive(e) ==
  /\ example[e] # None
  /\ example[e].active
  /\ example' = [example EXCEPT ![e].active = FALSE]

(* SubmitFeedback, by the asker, at any time: a like, a dislike, or a like *)
(* that corrects the SQL.  The latest one replaces those before.           *)
SubmitFeedback(r) ==
  /\ Stored(r)
  /\ \E f \in {"up", "down", "corrected"} : Upsert(r, f)
  /\ UNCHANGED <<request, row, reviewed, example, promoting, layers>>

MarkQueryRunReviewed(r) ==
  /\ Stored(r)
  /\ SetReviewed(r)
  /\ UNCHANGED <<request, row, feedback, example, promoting, layers>>

(* CreateCanonicalExample first inserts the example ...                    *)
InsertExample(o, r) ==
  /\ promoting[o] = None
  /\ Stored(r)
  /\ InsertExampleRow(r)
  /\ promoting' = [promoting EXCEPT ![o] = r]
  /\ UNCHANGED <<request, row, reviewed, feedback, layers>>

(* ... and then marks its run reviewed, in a transaction of its own.  An   *)
(* error here is returned and the example stays.                           *)
MarkReviewed(o) ==
  /\ promoting[o] # None
  /\ SetReviewed(promoting[o]) \/ UNCHANGED reviewed
  /\ promoting' = [promoting EXCEPT ![o] = None]
  /\ UNCHANGED <<request, row, feedback, example, layers>>

ArchiveCanonicalExample(e) ==
  /\ Archive(e)
  /\ UNCHANGED <<request, row, reviewed, feedback, promoting, layers>>

-----------------------------------------------------------------------------
(* What askers are shown later.                                            *)

scanTenantQueryRun(r) ==
  [status |-> status[r], attempts |-> recorded[r], stage |-> errorStage[r]]

(* The history of the asker, here of all requests.                         *)
ListByTenantAndUser == {r \in Request : Stored(r)}
ListMyQueryRuns == [r \in ListByTenantAndUser |-> scanTenantQueryRun(r)]

-----------------------------------------------------------------------------
(* Around it.                                                              *)

(* The semantic layer's editors.                                           *)
CreateDraftVersion ==
  /\ "draft" \notin layers
  /\ layers' = layers \cup {"draft"}
  /\ UNCHANGED <<request, row, review>>

Approve ==
  /\ "draft" \in layers
  /\ layers' = {"approved"}
  /\ UNCHANGED <<request, row, review>>

(* The control plane goes down with everything under way.                  *)
Crash ==
  /\ \/ \E r \in Request : pc[r] \notin {"idle", "returned"}
     \/ \E o \in Owner : promoting[o] # None
  /\ pc' = [r \in Request |-> IF pc[r] = "idle" THEN "idle" ELSE "returned"]
  /\ reply' = [r \in Request |->
                 IF pc[r] \in {"idle", "returned"} THEN reply[r] ELSE "lost"]
  /\ promoting' = [o \in Owner |-> None]
  /\ UNCHANGED <<live, seen, source, attempts, blame, row, reviewed, feedback,
                 example, layers>>

-----------------------------------------------------------------------------
Step(r) ==
  \/ ReadApproved(r) \/ ReadDraft(r) \/ Create(r) \/ TakeExamples(r)
  \/ generateSQL(r) \/ Validate(r) \/ ExecuteQuery(r) \/ summarize(r)
  \/ Succeed(r) \/ completeFailedQueryRun(r)

Review ==
  \/ \E r \in Request : SubmitFeedback(r) \/ MarkQueryRunReviewed(r)
  \/ \E o \in Owner : MarkReviewed(o) \/ \E r \in Request : InsertExample(o, r)
  \/ \E e \in Example : ArchiveCanonicalExample(e)

Next ==
  \/ \E r \in Request : Ask(r) \/ Step(r) \/ Expire(r)
  \/ Review
  \/ CreateDraftVersion \/ Approve
  \/ Crash

Spec == Init /\ [][Next]_vars

(* A request that has been accepted keeps running: its goroutine is        *)
(* scheduled, and each of its calls returns by its context's deadline.     *)
FairSpec == Spec /\ \A r \in Request : WF_vars(Step(r))

-----------------------------------------------------------------------------
Label == {"idle", "approved", "draft", "create", "examples", "generate", "guard",
          "execute", "summarize", "succeed", "fail", "returned"}
Source == {"none", "approved", "draft", "raw_schema"}
Reply == {"none", "refused", "answer", "failed", "unrecorded", "lost"}
Status == {"none", "running", "succeeded", "failed"}
ErrorStage == {"none", "generation", "validation", "execution"}

(* Types of everything; the attempt loop takes no third turn.              *)
TypeOK ==
  /\ pc \in [Request -> Label]
  /\ live \subseteq Request
  /\ seen \in [Request -> SUBSET {"draft", "approved"}]
  /\ source \in [Request -> Source]
  /\ attempts \in [Request -> Seq(Attempt)]
  /\ \A r \in Request : Len(attempts[r]) <= maxAttempts
  /\ blame \in [Request -> ErrorStage]
  /\ reply \in [Request -> Reply]
  /\ status \in [Request -> Status]
  /\ recorded \in [Request -> Seq(Attempt)]
  /\ errorStage \in [Request -> ErrorStage]
  /\ reviewed \subseteq Request
  /\ feedback \in [Request -> {"none", "up", "down", "corrected"}]
  /\ example \in [Example -> {None} \cup [run : Request, active : BOOLEAN]]
  /\ promoting \in [Owner -> Request \cup {None}]
  /\ layers \subseteq {"draft", "approved"}

(* What the asker is told is what the history shows: an answer is only     *)
(* given for a run listed as succeeded, the reason of a failure only for   *)
(* one listed as failed, both with the attempts that are listed.  Whoever  *)
(* is told neither has an error saying that the run could not be recorded. *)
ReplyMatchesRecord ==
  \A r \in Request :
    /\ reply[r] = "answer" =>
         /\ r \in ListByTenantAndUser
         /\ ListMyQueryRuns[r].status = "succeeded"
         /\ ListMyQueryRuns[r].attempts = askResultToProto(r)
    /\ reply[r] = "failed" =>
         /\ r \in ListByTenantAndUser
         /\ ListMyQueryRuns[r].status = "failed"
         /\ ListMyQueryRuns[r].attempts = queryAskError(r)
    /\ status[r] = "running" /\ pc[r] = "returned"
         => reply[r] \in {"unrecorded", "refused", "lost"}

(* Only what is worth a retry comes before the last attempt, so nothing    *)
(* follows a permission_denied.                                            *)
RetriesInOrder(trace) ==
  /\ Len(trace) <= maxAttempts
  /\ \A k \in 1 .. Len(trace) : k < Len(trace) => trace[k] \in Retryable

EndsIn(trace, a) == trace # <<>> /\ trace[Len(trace)] = a

(* A failure in this stage: before any attempt, or in the last of them,    *)
(* which used the attempts up if it was worth a retry.                     *)
Explains(trace, stage) ==
  \/ trace = <<>> /\ stage = "generation"
  \/ \E a \in Attempt \ {"ok"} :
       /\ EndsIn(trace, a)
       /\ stage = Stage(a)
       /\ a \in Retryable => Len(trace) = maxAttempts

(* The recorded attempts account for the recorded outcome: a run that      *)
(* succeeded ends in an execution without error, one that failed ends in   *)
(* an error of the stage it names, or failed before its first attempt,     *)
(* when its examples could not be searched.                                *)
AttemptsTellTheStory ==
  \A r \in Request :
    /\ RetriesInOrder(recorded[r])
    /\ status[r] = "succeeded" => EndsIn(recorded[r], "ok") /\ errorStage[r] = "none"
    /\ status[r] = "failed" => Explains(recorded[r], errorStage[r])

OutcomeKept ==
  \A r \in Request :
    status[r] \in {"succeeded", "failed"} =>
      status'[r] = status[r] /\ recorded'[r] = recorded[r]

(* A run's outcome is settled once.  complete() has no guard on the status *)
(* it overwrites, and its error can hide that it took effect.              *)
SettledOnce == [][OutcomeKept]_vars

(* Every run that is started is settled, unless its asker got an error     *)
(* from the insert or the final update or the control plane went down.     *)
RunsSettle ==
  \A r \in Request :
    status[r] = "running" ~>
      status[r] \in {"succeeded", "failed"} \/ reply[r] \in {"unrecorded", "refused", "lost"}

(* query.proto of the attempts of an AskQuestionResponse, which is also    *)
(* the detail of an error: "Attempts history, size 1 or 2."                *)
AttemptsAreOneOrTwo ==
  \A r \in Request :
    /\ reply[r] = "answer" => Len(askResultToProto(r)) \in {1, 2}
    /\ reply[r] = "failed" => Len(queryAskError(r)) \in {1, 2}

(* locale_messages.go, to the asker of a run with prompt context source    *)
(* raw_schema: "No semantic layer found".                                  *)
RawMeansNoLayer ==
  \A r \in Request : source[r] = "raw_schema" => seen[r] = {}
=============================================================================
