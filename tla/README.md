# Mission: a TLA+ verification project

Mission answers questions about a customer's MySQL database. A *control plane*
(Go, PostgreSQL) turns a question into SQL with the help of an LLM; an *edge
agent* (Go) in the customer's network runs it. The agent dials out and keeps one
command stream open, over which the control plane sends commands; results come
back as separate requests. This directory models the parts of that system in
which order matters: sessions and commands, the agent on its host and what it
lets through to the database, LLM failover, the life of a question and its
review, the onboarding wizard, schemas and semantic layers, tenants and tokens,
and the control plane's own start, migration and shutdown.

Every definition is translated from the source; `PROJECT.json` maps each to its
lines. Definitions whose name has a suffix after an underscore
(`Retry_OffByOne`) are deliberate faults that show that a property can fail.

## 1. Inventory

| Component | State | Operations | What is hard |
|---|---|---|---|
| Agent session manager (`controller/agent.go`, `handler/agent.go`) | `byToken`, `byID`, per session: active flag, heartbeat, command queue, pending waiters | register, stream loop, heartbeat, ping / query / introspect / configure, submit result, disconnect | results delivered after the unlock, replaced sessions, full queues, cancelled callers, agent clocks |
| Edge agent (`edgeagent/controller/agent.go`) | reconnect loop, two goroutines, the command in hand | dial, heartbeat, receive, execute, audit, submit, stop | one goroutine ending has to end the other; backoff; death between execution and answer |
| Tunnel (`gateway/controlplane/client.go`) | stream, requests | frames, unary requests | loss, delay, half-dead connections |
| LLM router (`gateway/llm`) | a circuit breaker per provider | `Complete` | answers in another state than their calls, cancelled probes, expired deadlines |
| Question pipeline (`controller/query*.go`, `repository/query_memory.go`) | the run row, attempts | ask, generate, validate, execute, summarize, record | a context that dies anywhere, writes with unknown effect, layers approved meanwhile |
| Review (`query_review.go`, `repository/query_*`) | feedback, reviewed mark, canonical examples | feedback, review, promote, archive | two writes per promotion, concurrent owners |
| Onboarding (`controller/onboarding.go`) | one row per tenant: step and payload | ten handlers, each read - work - write back | stale copies, polling that writes |
| Semantic layers, schema capture, starter questions | versions, drafts, approvals, question sets | capture, draft, edit, approve, generate | checks outside transactions, concurrent replacement |
| MySQL runtime of the agent (`edgeagent/runtime`, `gateway/mysql`, `introspect`, `auditlog`, `cmd/edge-agent`) | DSN file, open gateway, audit file | start, configure, execute, introspect, close | a crash or a failed write between any two steps, file and gateway out of step, a catalogue that changes between reads, columns of one name, values wider than the protocol's numbers |
| SQL guard (`sqlguard`) | none: a function of the text | `Validate` | quotes, escapes and comments, SELECTs deep in the tree, statements without a limit |
| LLM providers (`llmprovider`, `gateway/llm/{anthropic,openai,mistral}`) | none | build, send, read the exchange | three transports that have to agree on what an error means |
| Tenants, tokens, authentication (`controller/tenant.go`, `auth`, `repository/tenant*.go`, `invite.go`) | tenants, memberships, tokens, invitations | create, issue, revoke, invite, authenticate | a revocation between two statements of an authentication, or against an open stream |
| Start-up, migrations, shutdown (`cmd/control-plane`, `config`, `db`) | recorded version, schema, advisory lock, pool | load, migrate, serve, drain, close | crashes between statements, instances of different images, a history numbered anew, requests that outlast the timeout |
| HTTP handlers | none of their own | translation | what an asker is shown has to be what was recorded |
| Web application, generated code, deployment | rendering, or derived | | |

Interaction: HTTP handlers call controllers; the query pipeline calls the LLM
router and the session manager; the session manager and the agent talk through
the tunnel; onboarding asks the session manager who is online, captures a schema
through it and looks at the semantic layers; the query pipeline reads the
semantic layers. All durable state is in PostgreSQL; sessions, waiters and
breakers are in memory and are lost at a restart.

`PROJECT.json` lists the hazards at their lines. What makes each part correct:

* sessions: no caller is lost or answered twice, no channel misuse, only the own
  stream or a successor closes a session, answers come from the asked tenant;
* agent: sessions do not overlap, everything stops, the audit entry comes before
  the answer;
* runtime: what is stored is what is served, what is reported is what happened,
  only single reading statements reach the database, the last column of each
  name arrives as it was;
* tunnel: every caller returns and the agent comes back unless a request hangs
  for ever; a query runs at most once;
* router: breakers follow the streak of failures, a probe is never lost, a
  provider that recovers is used again;
* questions: what the asker is told is what is recorded, attempts explain it, a
  run is settled once;
* onboarding: the row is one handler's view of the world, never a mixture; the
  lock after approval; secrets are forgotten; an agent that is there is noticed;
* schemas and layers: a layer describes the tables of its version, whatever LLM
  and editor send, and an approved version stays approved;
* starter questions: racing generations leave the tenant a set, made of tables
  that exist;
* tokens: rows are written by members of their tenant only; a revocation cuts the
  agent off, whatever was under way;
* control plane: a process serves only on a schema with its migrations, as long
  as they are numbered as those before them; it drains before it closes the pool,
  and ends when it is told to.

## 2. Modules

| Module | Models | Uses |
|---|---|---|
| `CommandRPC` | what callers of the session manager are promised (abstract) | |
| `AgentSessions` | session manager and stream handlers | `CommandRPC` (refinement) |
| `AgentSessionsProofs` | theorems about it and about `AgentTunnel` | extends `AgentTunnel` |
| `EdgeAgent` | one agent process in an arbitrary environment | |
| `EdgeAgentProofs` | theorems about it, `SQLGuard` and `MySQLRuntime` | extends `MySQLRuntime` |
| `SQLGuard` | the guard between generated SQL and the database | |
| `MySQLRuntime` | the agent on its host: start, DSN file, gateway, commands | extends `EdgeAgent` and `SQLGuard` |
| `AgentTunnel` | agent, network and control plane composed | extends `AgentSessions`, instantiates `EdgeAgent` |
| `LLMProviders` | the providers' table, requests and errors | |
| `LLMRouter`, `LLMRouterProofs` | failover and circuit breakers | extends `LLMProviders` |
| `QueryRuns`, `QueryRunsProofs` | a question, its run, its review | |
| `Onboarding`, `OnboardingProofs` | the wizard's row and its handlers | |
| `SemanticLayers` | schema capture, drafts, edits, approvals | |
| `SemanticLayersProofs` | theorems about it and about `StarterQuestions` | extends `StarterQuestions` |
| `StarterQuestions` | starter questions next to the layers | extends `SemanticLayers` |
| `AgentTokens`, `AgentTokensProofs` | tenants, members, invitations, tokens, authentication | |
| `ControlPlane`, `ControlPlaneProofs` | configuration, migration, serving, shutdown | extends `LLMProviders` |
| `MC*` | constants for TLC | |

### AgentSessions

A section under the manager's mutex is one action; what follows the unlock is
another. So `SubmitResult` takes the waiter out of `pending` and `AnswerWaiter`
sends later; `ContextDone` is the caller's choice in `select` and `CancelCall`
the locked clean-up; `RegisterSession` reads the clock up to `LockDelay` before
it acts. Sessions are numbered in creation order, so an old and a new session
with one id can be told apart, which the Go code does by pointer. The four
commands differ in how they find a session (`SessionFor`) and are otherwise the
same code. `held` and `result` are the waiter channels: one slot each, closed or
open.

`ImplementsRPC` is the refinement: mapped to `CommandRPC` by the state of each
call, every step of the manager is a step of that specification or a stutter.

### EdgeAgent, MySQLRuntime and AgentTunnel

`EdgeAgent` has the reconnect loop (`run`), the heartbeat goroutine (`beat`) and
the receiving goroutine (`recv`), which handles one command at a time. `audits`
holds the queries that were handed to the audit log.

`MySQLRuntime` puts that process on its host. A start (`Boot*`) reads the
environment and the DSN file; a process that cannot open its database exits and
is started again. ConfigureDatabase is five steps (open, probe, truncate the
file, write it, swap the gateway), and `HostCrash` may come between any two: the
file survives, the gateway does not. A write that fails, or that a crash cuts
short, leaves nothing, a part or all of the new DSN in the file (`WriteLeaves`);
a part may fail to parse or name another database (`Cut`). `unsaved` (history)
says that such a write was the last of this process.

A query is put before the guard, sent, read back and converted. A result is a row
of values under column names; `scanRows` keeps one value per name, the last, as
the map in the code does. Values have the types that the code tells apart
(`SqlValue`: NULL, signed and unsigned integers, integers as text, floats,
DECIMALs, text, and bytes that are no UTF-8; times are text by then).
`normalizeValue` gives them a Go type, `queryResultToProto` the wire's: integers
become a float64, the nearest one with ties to the even one; bytes cannot be sent
(`Encodes`), so the submission fails and with it the session. Widths are
constants, so that integers beyond the mantissa and beyond an int64 occur among
small numbers. An introspection reads the catalogue four times while it changes.
`logged` is the audit file: a line may fail to be written, which the code only
logs. Driver and database are external and may fail at every call.

`SQLGuard` sees a text twice, as characters for the scanner and as the parser's
tree for the rest. The scanner is a fold over the characters (`ScanStep`). `Bare`
is a reference apart from it: a literal runs to the first quote of its kind that
no backslash escapes, and what can be reached from the front by reading one
character or one literal at a time is outside.

`AgentTunnel` gives the agent a peer: each of its requests is joined with the
manager's action on the other side, or fails, or is served without the agent
hearing of it, or is served late. `MaxFaults` is spent on breaking streams,
losing messages and killing the process, which may leave a result on its way.
A request of the agent that nobody answers and nothing fails hangs: its context
has no deadline. `Hangs` names these behaviours, and the two liveness properties
except them.

### LLMProviders and LLMRouter

A provider is a row of `supportedSpecs`. `Params` is what its transport makes of
a request, `Complete` how it reads the end of the exchange: as an answer, a
transient error, a cancellation or another error. The transports differ where
the code does: Mistral's own client reads the body from the connection, and a
deadline that passes then is no transient error.

In `LLMRouter`, one action for `beforeCall` (`Admit`, `Skip`), one for the
provider's answer with `afterCall` (`Return`), for every end of the exchange.
Time is what is left of each open interval. `streak` (history) counts transient
failures since the last other answer and is what the breaker is compared with.

### QueryRuns

Each call that leaves the process is a step of its own. `live` is the request's
context: when it ends, every later call fails, including the write that would
record the failure. A write may take effect and still be reported as failed.
What the asker is told (`askResultToProto`, `queryAskError`) and what the history
shows later (`ListMyQueryRuns`) are translated too, so that `ReplyMatchesRecord`
compares what people are shown. A question that fails while it is prepared has an
empty history of attempts, which `AttemptsTellTheStory` allows as the one outcome
without an attempt, and which `AttemptsAreOneOrTwo`, the protocol's words, does
not. The review queue is not modelled (section 5).

### Onboarding

A handler is `Load` (read, guards), its work on its copy `rec[r]`, and
`persistState`, which writes step and payload back as a whole. GetState and the
connection status write as well, through `refreshAgentConnection`. `behind`
(history) holds the handlers that read the row after the approval.

### SemanticLayers and StarterQuestions

What a request has read and not yet written is `task[r]`. A capture is three
steps: the agent's answer (`IntrospectSchema`), the comparison with the latest
version (`Unchanged`, `Changed`), the insert (`CreateVersion`). A version has the
time that the clock of the agent's host showed, any member of `AgentTime`: equal
times and times that go back occur, and the latest version is the one with the
greatest time, of equals the one inserted last. Drafts and edits
end in the transaction `CreateDraftVersion`, an approval in `ApproveLayer`; the
status is tested before that transaction and not in it, so a layer archived in
between is approved all the same, and a newer draft archived. Both transactions
are single steps: they lock the rows they change, and those that overlap without
waiting for each other violate a partial unique index or deadlock, which is
`Abandon`. A schema is its set of tables (the code sorts before it hashes), a
layer a description for each table and the source tables that its entities and
metrics name (`sources`). The former are held to the schema by
`hydrateSemanticLayerFromSchema` and `mergeEditableDescriptions`; the latter stay
what the LLM said.

`StarterQuestions` adds `List`, `Regenerate` (`generate`, two attempts) and
`ReplaceActiveSet`, which no index protects and which is therefore three steps:
`Begin` fixes `created_at`, `deactivatePriorSets` the rows it retires, `insertSet`
commits. Two that overlap leave two active sets, and a caller may be answered
with the other's; `AnswersAreInLocaleOrNewer` says how far that can go.

### AgentTokens

A user's call finds the caller to be a member (`EnsureMembership`) and acts later,
one statement at a time, on whatever identifiers it named. An agent's request is
authenticated by two statements, `LookupActiveByHash` and `TouchLastUsed`, before
its handler registers the session or marks the heartbeat. `fresh` counts the ticks
until a session is stale; a heartbeat stores the agent's time, which may be ahead.
A heartbeat that is refused makes the agent close its stream, if it is still
there to do so; one that hangs keeps its stream, and goes stale.

### ControlPlane

Several instances share a database and may run different images. `Script[b][v]`
is what migration v of image b creates; images need not agree on it, as after a
history was squashed. `schema` holds what scripts have created, `writers`
(history) the images that changed the record. `Boot` is the configuration with everything it turns down; `Lock` to `ForceHead` is `Migrate`: Up,
and for a recorded version the image does not know Force to its head and Up
again, with the advisory lock released in between. A migration is three
statements (mark dirty, script, mark clean). `NewPool` is the rest of the start.
On SIGTERM, `Drain`, `Drained` or `ShutdownTimeout`, then `ClosePool`, which
waits for connections in use; `srv.Shutdown` does not wait for h2c connections,
which were hijacked.

## 3. Runs

| Run | Question | Bounds |
|---|---|---|
| `sessions` | two processes with one token, an agent of another tenant, clocks that tick and one that is behind: waiters, channels, isolation, no revival, refinement, release of callers | 2 calls (a query, a ping), 2 registrations, queue of 1, 1 tick |
| `agent_host` | one agent and its runtime, dying anywhere, in any environment | 4 commands (one of each kind), 13 SQL texts, 2 databases, one whose DSN when cut may name the other or none, 5 results of every type of value, two with a repeated name, 4 environments, 1 refusal in a row; a mantissa of 4 and integers to 31, so that 3 is exact, -13 rounded, 33 sent as text |
| `tunnel` | agent and control plane with one fault anywhere and sessions that go stale | 1 call, 1 fault, 2 processes, 1 tick, 5 sessions |
| `router` | 3 concurrent requests, 2 providers | threshold 2, interval 1 |
| `runs` | a question with failures everywhere, reviewed by two owners | 1 run, 2 examples |
| `runs_raw_schema` (violation) | does "raw schema" mean there is no layer? | as `runs` |
| `runs_attempts` (violation) | does every answer have one or two attempts? | as `runs` |
| `onboarding` | two handlers overlapping in every way, agents and restarts | 2 handlers, 1 token |
| `onboarding_locked` (violation) | are earlier steps locked after approval? | as `onboarding` |
| `starters` | captures, drafts, edits and approvals overlapping while the database changes; two generations of starter questions racing beside them | 2 tables, 4 ticks, 2 times of the agent's clock; either 2 requests with 2 versions and 2 layers or 1 version and 3, or (with starter questions) 2 callers, 2 languages and 2 sets with 1 request at a time, 1 version and 2 layers |
| `startup` | two instances of three images (one, its successor, one with both migrations squashed into one) booting, migrating, crashing, rolling back, stopping | 3 boots, 1 crash, 1 plain and 1 h2c request per instance, 3 environments |
| `tokens` | two owners, a stranger and an agent that may hang, with a clock that may be ahead | 2 tenants, 2 tokens, 1 address, stale after 1 tick, 1 tick ahead |

Why the bounds are enough to be interesting: two registrations are what one
replacement needs, and five are more than one fault can cause; a queue of
one is full after one command; a threshold of two tells the first failure from
the last; three requests are needed for a late answer of a call from before the
breaker opened to meet a probe and a refused request; runs do not share rows
except through the layers, examples and owners, which are there; one stale and
one newer handler are what a lost update needs, and one token can be the
wizard's or another agent's; two requests are what a stale check or a
collision needs, three layers a draft, an approved layer and an archived one; no
property tells two descriptions or two sets of source tables apart, so one of
each is enough; the texts of `agent_host` are one
for each way through the guard, taken from its tests; its commands each arrive
once, in any order and before or after a death, which is what storing, serving
and starting again need; three boots are an upgrade, a roll-back and the next upgrade, or
an image on a history numbered otherwise;
the two tokens of `tokens` can be of one tenant or of two. With two tokens (5
million states) the safety properties of onboarding hold as well. The sessions
run has a query and a ping; the other two kinds of command find their session as
these do, and the theorems cover every kind. The theorems below remove the
bounds from all safety properties. The type invariants are proved (section 4) and
not repeated in the runs.

Pure functions are checked against a reference by ASSUMEs of the MC modules,
which TLC evaluates at the start of the run:

* `ScannerIsExact` (`MCAgentHost`): on every text of up to five of the characters
  that matter, the guard's scanner finds what `Bare` calls outside the literals
  (`ScannerExact` proves it for every text);
* `SameQuestion` (`MCLLMRouter`): over requests of every shape, all transports
  that accept a request send the same messages, and only cache settings make
  them disagree about accepting;
* `ErrorsAreToldApart`, `DefaultGoesFirst` (`MCLLMRouter`): every transport reads
  answers, cancellations, refusals and trouble alike; the order of providers;
* `ConfigurationIsChecked` (`MCControlPlane`): each bad setting is refused before
  serving, among them a pool size that an int32 cannot hold, and the stand-in for
  Clerk is never used outside development.

Deadlock is not checked where a run may end: all calls returned, the agent
stopped, or a bound reached.

### Fairness

* `AgentSessions`: goroutines that can take a step do (a caller with something on
  its channel, a caller cleaning up, a sender of a result). Nothing is assumed of
  agents, streams or callers' patience.
* `EdgeAgent`: goroutines run and sleeps end. A dial, a heartbeat, a submission and
  the stream have no deadline (`agent.go:329` is a `WithCancel`, and the HTTP
  client of `cmd/edge-agent/main.go:107-123` has no timeout and no keepalive), so
  they are assumed to end only once their context is cancelled.
* `MySQLRuntime`: as `EdgeAgent`; what is asked of the database has a timeout and
  ends. That a database can be opened is not assumed.
* `AgentTunnel`: both programs run, and a stream that carries anything carries it
  on. Nothing makes the network answer a request, or either side notice that a
  stream broke, and there is no fairness for faults or for the caller giving up.
  `CallersReturn` and `AgentComesBack` therefore hold of the behaviours in which no
  request is out for ever and no broken stream goes unnoticed for ever (`Hangs`);
  in the others the code does wait for ever.
* `LLMRouter`: time passes, requests keep coming and end; and the default provider
  is not always interrupted by its callers while it is well.
* `QueryRuns`: a request that was accepted takes steps; its calls end by the
  route's deadline.
* `Onboarding`: a handler ends by the route's deadline; the install screen polls
  every five seconds while that is the step
  (`web/src/components/onboarding/OnboardingStepScreen.tsx:143`), and neither
  every look nor every write of what was found fails.
* `SemanticLayers` and `StarterQuestions`: none; only safety is claimed.
* `AgentTokens`: time passes and the server carries out the requests it has.
  Nothing is assumed of agents.
* `ControlPlane`: the process runs, its timeouts pass, and a query gives its
  connection back (routes have timeouts; the agents' statements are short).
  Requests need not end.

### Findings

* `runs_raw_schema`: the approved layer and the draft are looked up by two
  statements. A draft approved in between is in neither answer, and the question
  is answered from the raw schema with a warning that there is no layer.
* `onboarding_locked`: a handler that read before the approval writes its copy
  afterwards and undoes it. `LockIsBrokenByStaleHandlersOnly` shows that this is
  the only way.
* `runs_attempts`: a question whose examples cannot be read fails before its first
  attempt (`query_prepare.go:158`), and the error's detail has an empty history;
  `query.proto:52` says "size 1 or 2".

Without a run:

* The review queue cannot be listed: `query_review_queue.go:87-104` selects
  `clerk_user_id` and `created_at` without a table (`:18`) from a join in which two
  tables have them, which PostgreSQL refuses as ambiguous. The tests do not see it,
  as they use a fake (`query_memory_test.go:336-343`).
* A request of the agent that is lost without an error keeps the agent waiting for
  ever, and with it every caller without a deadline (`agent.go:329`).
* A DSN file whose write fails is not restored (`runtime/mysql.go:187`): while the
  old database is still served, the file may hold nothing, a part or all of the
  new DSN. The next process then has no database, does not start, or serves
  another one.
* Of two columns of one name the first is lost (`gateway/mysql/mysql.go:309`), and
  a value that is no UTF-8 makes the submission fail and ends the session.
* Source tables that the LLM names in entities and metrics are not held to the
  schema (`semantic_layer.go:481-482`, `542-570`) and reach the prompts
  (`query_prompt.go:136`).
* When the clock of the agent's host steps back, a changed schema is stored but is
  not the latest version, and is stored again at each capture (`schema.go:113-130`).
* `internal/controlplane/db/migrate.go:46` says that Migrate "brings the database
  schema to the latest version". On a history that was numbered anew it does not:
  a recorded version that the image does not have is forced to its head, which
  `migrate_test.go:212-240` expects (7 to 1, without 0001 having run), and one that
  it has by chance is taken for its own. The scripts never run, and the process
  serves. `startup` has such an image, and `ServesItsSchema` without its condition
  fails there.
* `internal/controlplane/db/migrate.go:47` says of Migrate "Safe to call on every
  boot". An older image that finds a newer version recorded forces it down to its
  own (`:79`); when the newer image boots again it runs its migration a second
  time, the script fails on what is there, and the database stays dirty. With one
  numbering nobody serves a schema it does not have (`ServesItsSchema`), but the
  newer image no longer starts.
* `slugRE` accepts a slug of one character, while `ErrInvalidSlug` says 3 to 63.
* `cmd/control-plane/main.go:258` explains the route's timeout by two LLM calls
  and one round trip, while with the retry of `maxAttempts` there are up to three
  and two.
* A capture found equal to the latest version leaves its time alone, so an older
  capture still in flight becomes the latest after it, also with a clock that is
  right.

## 4. Proofs

Every invariant and every action property that a passing run checks is also a
theorem. The theorems hold for every value of the constants that satisfies the
named assumptions of the module; no bound of section 3 is one. The assumptions
say what the constants stand for:

* `AgentsAssumption`: a session id belongs to one process, and a process has one
  token; `TunnelAssumption`: the tunnel's agents are its processes, and a command
  is no acknowledgement;
* `SqlAssumption`: a text is a sequence of characters, and the parser yields a
  sequence of trees; `RuntimeAssumption`, `InputsAssumption`: widths and shapes of
  what driver and environment yield, with an even mantissa below the largest
  integer, and a cut DSN names a database or none; `MarkersAssumption`: the markers for an unreadable file or argument are
  no DSNs;
* `StarterAssumption`: finitely many tables; `TextAssumption`: times are natural
  numbers and there is an empty description; `ImageAssumption`: every image has a
  migration. Nothing is assumed of what the migrations of two images have in
  common.

### The arguments

* **AgentSessions.** `IInv` adds to the checked invariants what the mutex
  protects: how sessions, streams and queues go together (`SessionInv`,
  `QueueInv`) and where a call's command is at each stage of the call
  (`CallInv`). It is needed because `WaiterReachable` alone says nothing of a
  waiter taken out of `pending` whose result is not sent yet. From it follow
  `NoChannelPanic`, `NoLostCaller`, `NoPendingLeak`, `MapsAgree`,
  `TenantIsolation`, `OwnStreamOrSuccessor`, `StaleStaysStale`, and
  `Refinement`, that the manager implements `CommandRPC`.
* **AgentTunnel.** `TunnelInv` is `IInv` and what network and agent may hold: a
  command on the wire is there once, was taken from the queue once and is not
  executed (`FrameInv`); the command in the agent's hands has been executed exactly
  when it is past that stage (`HandlerInv`); a result, on its way, late or
  arrived, is of a query that ran once and was audited (`AnswerInv`). Without
  `FrameInv`, `AtMostOnce` is not inductive: a second copy on the wire would be
  executed. It holds for any number of faults, processes and calls.
  `AnswersAudited` follows as well. `TunnelImplementsManager` and
  `TunnelImplementsAgent` show that the composition is faithful to its parts: the
  tunnel's steps are steps of `AgentSessions` on one side and of `EdgeAgent` on
  the other, so that everything proved of either holds in the tunnel
  (`TunnelKeepsPromise`: callers are promised `CommandRPC` there too).
* **EdgeAgent.** `AgentInv`: types, a handler has a command (`AuditFirst`: audit
  before answer; `SessionsDoNotOverlap`: no stragglers).
* **SQLGuard.** `ScannerExact`: for every text, `OutsideQuotes` is `Bare`. In one
  direction, the positions in front of which the scanner is outside quotes are
  closed under reading a character or a literal, because while it is inside one
  it is at the literal's escapes (`InsideLiteral`); in the other, a position
  outside is reached by the literals in front of it (`OutsideIsBare`). With that,
  `GuardLetsReadsThrough` follows the order of the tests of `Validate`.
* **MySQLRuntime.** `HostInv` relates the stages of ConfigureDatabase to gateway
  and file: at which stages the file is truncated or written ahead of the gateway,
  and that without a failed write they agree otherwise (`StageFits`), that the gateway the command found is still there until the swap
  (`CommandFits`), that what was sent passed the guard (`SentFits`) and how a row
  was converted (`RowsFit`). From it `StoredServed`, `AnswersMatch`, `ReadsOnly`
  and `RowsExact`. `StoredServed` says that without `MYSQL_DSN` a process serves
  what the next one would take from the file, except between truncation and swap
  and after a failed write: the code does not restore the file, so nothing more
  can be said. `RowsExact` rests on `LastIsKept`, that of the columns of one name
  the map keeps the last, and for integers on `NearestError`: the unit of an integer beyond
  the mantissa is at most the integer over half the mantissa (`UlpFacts`), and rounding moves
  it by half a unit at most. `HostImplementsAgent`: without the host's variables,
  this is `EdgeAgent` (`HostAuditsFirst`).
* **LLMRouter.** `RouterInv` ties the counter of a closed breaker to the streak
  (`CountInv`); without it `ClosedIffFewFailures` is not inductive.
* **QueryRuns.** `IInv`, in the proof module, states for each stage of a
  request what its row and attempts look like; `SettledOnce` follows because
  only a request past the insert and before its reply writes the outcome.
* **Onboarding.** `OnboardingInv`: the copies of the handlers under way are as
  coherent as the row (a blind write of a coherent copy leaves a coherent row),
  what each handler's guard established still holds of its copy, and a copy read
  behind the lock stays behind it.
* **SemanticLayers.** `LayersInv` adds `StoreInv`: content on its way into the
  table fits the version it will be stored for. From it follow `IndexesHold`,
  `DescriptionsFit` and, with the effect of each transaction, `ApprovedStays`, for
  any clock of the agent's host.
* **StarterQuestions.** `StarterInv` follows a generation: its questions fit an
  approved layer that it read (`JobFitsLayer`), and while it replaces, every
  active set it can see is one it will retire (`JobReplaces`). The last makes
  `SetsReplaced` inductive: a commit leaves active only what it could not see.
  `AnswersInLocale` and `QuestionsFit` follow. All theorems of both modules are
  about the two together (`StarterInvariance`).
* **ControlPlane.** `SchemaInv`: to an image whose migrations all writers of the
  record number alike (`SharesNumbering`) the record is earned (every migration up
  to the recorded version took effect, except a dirty one), the holder of the advisory
  lock is the one inside Up, and whoever is about to force or past its migration
  has all it needs, under the same condition. The last holds although the lock is
  given up before Force, because effects are never undone and writers only become
  more. From it follow `ServingIsMigrated` and `AtHeadIsTrue`, for any
  images; without the condition both are false. `DrainThenClose` needs only `DrainInv`, that a pool is closed in time only when
  no known request is left.
* **AgentTokens.** `RInv`: a call under way is that of a member, and members stay.
  From it `OwnRows`. `RevokedIsRefused`: no request of a revoked token passes
  another statement of its authentication.

New inductive invariants were checked by TLC on the instance of their run before
they were proved, `TunnelInv` also with two calls and two faults (10 million
states).

Where an argument is by induction over the naturals (the scanner's states, `Ulp`,
the latest of a sequence), it is put as a least counterexample (`LeastNatural`,
from the well-foundedness of `<`), and a recursive function is first shown to
satisfy its equation (`Iteration`).

Only model-checked: liveness, which under fairness, and with ENABLED, is out of
the prover's reach (`ClosedSessionReleasesCallers`, `CallersReturn`,
`AgentComesBack`, `OneEndsBoth`, `TerminateStops`, `DefaultRecovers`, `RunsSettle`,
`AgentIsNoticed`, `RevocationCutsOff`, `TerminateExits`), and of the pure functions
those of the providers and the configuration (`SameQuestion`, `ErrorsAreToldApart`,
`DefaultGoesFirst`, `ConfigurationIsChecked`).

## 5. Not modelled, and what is left

Not modelled, and why:

* HTTP handlers beyond those of questions, tenants and agents: they translate
  requests, results and errors one to one and keep no state;
* the web application (rendering; only its polling is used, as fairness of
  `Onboarding`), generated code, scripts and deployment;
* the review queue: its one statement is always refused (section 3, Findings), so
  there is no behaviour to state a property of;
* within the modelled parts: wording, prompts, the ranking of examples, the layout
  of audit lines, the List calls that only read, the columns of a layer, and of
  its entities and metrics all but their source tables;
* the MySQL parser, the driver, golang-migrate, Clerk, the SDKs and HTTP/2 are
  external, and modelled from how the code uses them.

What would come next:

1. theorems for the ASSUMEs about providers and configuration;
2. safety halves of the liveness properties: that in a state where a caller waits,
   or an agent is to stop, some step towards it is always enabled.
