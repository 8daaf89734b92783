---------------------------- MODULE MySQLRuntime ----------------------------
(***************************************************************************)
(* The edge agent on its host: the process of EdgeAgent with the runtime   *)
(* that answers its commands (edgeagent/runtime, gateway/mysql, introspect *)
(* and auditlog), the file the DSN is kept in, and the start of a process. *)
(*                                                                         *)
(* The supervisor starts a process that exited with an error again, so a   *)
(* process that cannot open its database stays in its start.  Commands are *)
(* handled one at a time, but a process can die between any two steps of   *)
(* ConfigureDatabase, and the file outlives it, whole, empty or cut off.   *)
(* The database is external: whatever is asked of it may fail.             *)
(***************************************************************************)
EXTENDS EdgeAgent, SQLGuard

CONSTANTS
  Database,       \* databases; None: a DSN that names none
  Grants,         \* Grants[b]: the rows of SHOW GRANTS
  Tables,         \* Tables[b]: the successive catalogues of b
  Cut,            \* Cut[b]: what a DSN of b may name when its end is missing
  Results,        \* what a query can yield: [columns |-> names, values |-> a row]
  MaxInt64,       \* the largest signed integer
  Mantissa,       \* integers up to this one are exact as a float64
  Deployments,    \* what the environment of the process may say
  Blank,          \* a file or an argument of white space only
  Torn,           \* a file cut off where nothing can be opened with it
  Malformed       \* an argument that is no DSN

ConfigureKind == "configure_database"
IntrospectKind == "introspect_schema"

\* multi: the option that lets one request carry several statements.
Dsn == [database : Database \cup {None}, multi : BOOLEAN]

\* What the driver yields: n stands for the content, whatever its type.
SqlValue == [type : {"null", "int", "uint", "int_text", "float", "decimal", "text", "binary"},
             n : Int, scale : Nat]

ASSUME RuntimeAssumption ==
  /\ Mantissa \in Nat \ {0} /\ Mantissa % 2 = 0
  /\ MaxInt64 \in Nat /\ Mantissa < MaxInt64
  /\ MaxRefusals > 0
ASSUME MarkersAssumption ==
  /\ None \notin Dsn \cup Sql \cup {Blank, Torn, Malformed}
  /\ {Blank, Torn, Malformed} \cap Dsn = {}
  /\ Blank # Torn /\ Blank # Malformed
ASSUME InputsAssumption ==
  /\ \A r \in Results :
       /\ DOMAIN r.columns = DOMAIN r.values /\ DOMAIN r.columns \subseteq Nat
       /\ \A k \in DOMAIN r.values : r.values[k] \in SqlValue
  /\ \A b \in Database \cup {None} : Cut[b] \subseteq Database \cup {None}
  /\ Deployments \subseteq [direct : Dsn \cup {None, Malformed}, path : BOOLEAN,
                            complete : BOOLEAN]

VARIABLES
  env,        \* MYSQL_DSN, or None; whether a path for the file is known;
              \* whether the required settings are there
  file,       \* the DSN file: None, Blank, Torn or a DSN
  unsaved,    \* a write of this process failed, none succeeded since (history)
  up,         \* the runtime has been built
  gateway,    \* DSN of the open gateway, or None
  stage,      \* how far ConfigureDatabase is
  arg,        \* SQL or DSN of the command being handled
  reply,      \* what will be submitted
  sent,       \* the text sent to the database for that command, or None
  logged,     \* commands with a line in the audit file
  before      \* the gateway when the command arrived (history)

hostVars == <<env, file, unsaved, up, gateway, stage, arg, reply, sent, logged, before>>
allVars == <<agentVars, hostVars>>

HostInit ==
  /\ AgentInit
  /\ env \in Deployments
  /\ file \in IF env.path THEN {None} \cup {[database |-> b, multi |-> TRUE] : b \in Database}
                          ELSE {None}
  /\ unsaved = FALSE
  /\ up = FALSE
  /\ gateway = None
  /\ stage = "idle"
  /\ arg = None
  /\ reply = None
  /\ sent = None
  /\ logged = {}
  /\ before = None

-----------------------------------------------------------------------------
(* The gateway.                                                            *)

\* Timeouts and location are forced too.
NormalizeDSN(d) == [d EXCEPT !.multi = FALSE]

allowedPrivileges == {"USAGE", "SELECT", "SHOW VIEW"}

ValidateGrants(rows) ==
  /\ \A row \in rows :
       /\ row.form = "grant"
       /\ ~row.grantOption
       /\ row.privileges \subseteq allowedPrivileges
  /\ \E row \in rows : "SELECT" \in row.privileges

\* What can go wrong while a gateway is opened or probed, besides its grants.
\* A cancelled context always does.
Faults == IF sessionLive THEN {"unreachable", "access_denied", "timeout", "grants_unread"}
                         ELSE {"cancelled"}

Parses(d) == d \notin {Torn, Malformed}

validateConnection(d) == ValidateGrants(Grants[d.database])

\* Open can succeed.
Opens(d) == Parses(d) /\ validateConnection(d)

classifyConfigureDatabaseError(fault) ==
  CASE fault = "timeout" -> "TIMEOUT"
    [] fault = "access_denied" -> "AUTH_FAILED"
    [] fault \in {"grants", "grants_unread"} -> "PRIVILEGE_INVALID"
    [] OTHER -> "CONNECT_FAILED"

-----------------------------------------------------------------------------
(* The start of a process.                                                 *)

\* A file that is missing or blank is no DSN.
loadOptionalDSNFile == IF file = Blank THEN None ELSE file

\* The variable wins over the file.
LoadedDSN == IF env.direct # None THEN env.direct ELSE loadOptionalDSNFile

\* The settings Load insists on are there and make sense.
ConfigLoads == env.complete

\* Nothing is configured: the agent runs without a gateway.
BootUnconfigured ==
  /\ ~up
  /\ ConfigLoads
  /\ LoadedDSN = None
  /\ up' = TRUE
  /\ UNCHANGED <<agentVars, env, file, unsaved, gateway, stage, arg, reply, sent, logged, before>>

BootOpens ==
  /\ ~up
  /\ ConfigLoads
  /\ LoadedDSN # None
  /\ ctxLive
  /\ Opens(LoadedDSN)
  /\ up' = TRUE
  /\ gateway' = NormalizeDSN(LoadedDSN)
  /\ UNCHANGED <<agentVars, env, file, unsaved, stage, arg, reply, sent, logged, before>>

\* The process exits, or cannot open its gateway under a cancelled context, and
\* the supervisor that asked it to stop does not start it again.
BootStops ==
  /\ ~up
  /\ ~ConfigLoads \/ LoadedDSN # None
  /\ ~ctxLive
  /\ OpenFails
  /\ UNCHANGED hostVars

-----------------------------------------------------------------------------
(* Commands.                                                               *)

\* A DSN without the option is its own normal form, and not told apart.
Arguments(c) ==
  CASE Kind[c] = QueryKind -> Sql
    [] Kind[c] = ConfigureKind -> {d \in Dsn : d.multi} \cup {Blank, Malformed}
    [] OTHER -> {None}

ReceiveCommand(c) ==
  /\ up
  /\ Receive(c)
  /\ arg' \in Arguments(c)
  /\ before' = gateway
  /\ UNCHANGED <<env, file, unsaved, up, gateway, stage, reply, sent, logged>>

\* The handler has its result.
Answer(code, body) ==
  /\ Execute
  /\ reply' = [code |-> code, body |-> body]
  /\ stage' = "idle"

Handles(kind) == recv = "executing" /\ Kind[command] = kind

(* ConfigureDatabase.                                                      *)

\* Blank or not a DSN; not reachable, not allowed in, or too privileged.
ConfigureRefused ==
  /\ Handles(ConfigureKind)
  /\ stage = "idle"
  /\ IF arg \in {Blank, Malformed} THEN Answer("INVALID_DSN", None)
     ELSE \E fault \in Faults \cup (IF validateConnection(arg) THEN {} ELSE {"grants"}) :
            Answer(classifyConfigureDatabaseError(fault), None)
  /\ UNCHANGED <<env, file, unsaved, up, gateway, arg, sent, logged, before>>

ConfigureOpens ==
  /\ Handles(ConfigureKind)
  /\ stage = "idle"
  /\ sessionLive
  /\ arg # Blank /\ Opens(arg)
  /\ stage' = "probing"
  /\ UNCHANGED <<agentVars, env, file, unsaved, up, gateway, arg, reply, sent, logged, before>>

\* Fault: the new gateway is put in place before it is stored.
ConfigureProbes_SwapsFirst ==
  /\ Handles(ConfigureKind)
  /\ stage = "probing"
  /\ \/ /\ sessionLive
        /\ stage' = "writing"
        /\ gateway' = NormalizeDSN(arg)
        /\ UNCHANGED <<agentVars, reply>>
     \/ \E fault \in Faults \ {"grants_unread"} :
          /\ Answer(classifyConfigureDatabaseError(fault), None)
          /\ UNCHANGED gateway
  /\ UNCHANGED <<env, file, unsaved, up, arg, sent, logged, before>>

\* SELECT 1 on the new gateway.
ConfigureProbes ==
  /\ Handles(ConfigureKind)
  /\ stage = "probing"
  /\ \/ /\ sessionLive
        /\ stage' = "writing"
        /\ UNCHANGED <<agentVars, reply>>
     \/ \E fault \in Faults \ {"grants_unread"} :
          Answer(classifyConfigureDatabaseError(fault), None)
  /\ UNCHANGED <<env, file, unsaved, up, gateway, arg, sent, logged, before>>

\* writeDSN up to the open that truncates the file.
WriteStarts ==
  /\ Handles(ConfigureKind)
  /\ stage = "writing"
  /\ env.path
  /\ file' = Blank
  /\ stage' = "truncated"
  /\ UNCHANGED <<agentVars, env, unsaved, up, gateway, arg, reply, sent, logged, before>>

\* What is in the file when the write of d, or the process, stops short: nothing,
\* a part, or all of it.  A part may still be a DSN, of the same database when
\* only options are missing.
WriteLeaves(d) ==
  {Blank, Torn, NormalizeDSN(d)}
    \cup {[NormalizeDSN(d) EXCEPT !.database = b] : b \in Cut[d.database]}

\* No path, no directory or no file; no room for the text, or an error when the
\* file is closed.
WriteFails ==
  /\ Handles(ConfigureKind)
  /\ \/ stage = "writing" /\ UNCHANGED <<file, unsaved>>
     \/ stage = "truncated" /\ file' \in WriteLeaves(arg) /\ unsaved' = TRUE
  /\ Answer("WRITE_CONFIG_FAILED", None)
  /\ UNCHANGED <<env, up, gateway, arg, sent, logged, before>>

WriteEnds ==
  /\ Handles(ConfigureKind)
  /\ stage = "truncated"
  /\ file' = NormalizeDSN(arg)
  /\ unsaved' = FALSE
  /\ stage' = "swapping"
  /\ UNCHANGED <<agentVars, env, up, gateway, arg, reply, sent, logged, before>>

\* Fault: a gateway that is open already is kept.
swapGateway_KeepsOld ==
  /\ Handles(ConfigureKind)
  /\ stage = "swapping"
  /\ gateway' = IF gateway = None THEN NormalizeDSN(arg) ELSE gateway
  /\ Answer("OK", None)
  /\ UNCHANGED <<env, file, unsaved, up, arg, sent, logged, before>>

\* The old gateway is closed; nobody else uses it.
swapGateway ==
  /\ Handles(ConfigureKind)
  /\ stage = "swapping"
  /\ gateway' = NormalizeDSN(arg)
  /\ Answer("OK", None)
  /\ UNCHANGED <<env, file, unsaved, up, arg, sent, logged, before>>

(* ExecuteQuery.                                                           *)

\* An integer or a DECIMAL without decimals that does not fit becomes text, as
\* every other DECIMAL.
Integral(v) == v.type \in {"int", "uint", "int_text"} \/ (v.type = "decimal" /\ v.scale = 0)

\* Fault: an unsigned integer is converted whatever its size.
normalizeValue_Wraps(v) ==
  [as |-> CASE v.type = "null" -> "nil"
            [] v.type = "float" -> "float64"
            [] v.type = "binary" -> "bytes"
            [] Integral(v) -> "int64"
            [] OTHER -> "string",
   n |-> IF Integral(v) /\ v.n > MaxInt64 THEN v.n - 2 * (MaxInt64 + 1) ELSE v.n]

\* The Go type a value gets; "bytes" is a string that is not UTF-8.
normalizeValue(v) ==
  [as |-> CASE v.type = "null" -> "nil"
            [] v.type = "float" -> "float64"
            [] v.type = "binary" -> "bytes"
            [] Integral(v) /\ v.n \in -MaxInt64 - 1 .. MaxInt64 -> "int64"
            [] OTHER -> "string",
   n |-> v.n]

\* The distance of two neighbouring float64 around n.
Ulp == LET ulp[n \in 0 .. MaxInt64 + 1] == IF n < Mantissa THEN 1 ELSE 2 * ulp[n \div 2]
       IN ulp

\* A number of the protocol is a float64: the nearest one, of two the even one.
Nearest(n) ==
  LET unit == Ulp[n]
      units == n \div unit
      rest == n % unit
  IN IF 2 * rest < unit \/ (2 * rest = unit /\ units % 2 = 0)
       THEN units * unit ELSE (units + 1) * unit

Float64(n) == IF n < 0 THEN -Nearest(-n) ELSE Nearest(n)

\* The last of the columns with a name.
LastColumn(columns, name) ==
  CHOOSE k \in DOMAIN columns :
    columns[k] = name /\ \A j \in DOMAIN columns : columns[j] = name => j <= k

\* One row, a map: of two columns with one name the later is kept.
scanRows(r) ==
  [name \in {r.columns[k] : k \in DOMAIN r.columns} |->
     normalizeValue(r.values[LastColumn(r.columns, name)])]

\* structpb has a value for everything in the row.
Encodes(row) == \A name \in DOMAIN row : row[name].as # "bytes"

queryResultToProto(row) ==
  [name \in DOMAIN row |->
     CASE row[name].as = "nil" -> [as |-> "null", n |-> 0]
       [] row[name].as = "int64" -> [as |-> "number", n |-> Float64(row[name].n)]
       [] row[name].as = "float64" -> [as |-> "number", n |-> row[name].n]
       [] OTHER -> [as |-> "string", n |-> row[name].n]]

\* There is no gateway, or the guard says no: nothing is sent.
QueryRefused ==
  /\ Handles(QueryKind)
  /\ gateway = None \/ ~Verdict[arg].ok
  /\ Answer(IF gateway = None THEN "INTERNAL" ELSE "PERMISSION_DENIED", None)
  /\ UNCHANGED <<env, file, unsaved, up, gateway, arg, sent, logged, before>>

\* No connection, or the session cannot be prepared.
QueryNotSent ==
  /\ Handles(QueryKind)
  /\ gateway # None /\ Verdict[arg].ok
  /\ Answer("UNSPECIFIED", None)
  /\ UNCHANGED <<env, file, unsaved, up, gateway, arg, sent, logged, before>>

\* The statement is sent; it fails, or its rows are read.
QueryRuns ==
  /\ Handles(QueryKind)
  /\ gateway # None /\ Verdict[arg].ok
  /\ sessionLive
  /\ sent' = arg
  /\ \/ Answer("UNSPECIFIED", None)
     \/ \E r \in Results : Answer("OK", [got |-> r, row |-> scanRows(r)])
  /\ UNCHANGED <<env, file, unsaved, up, gateway, arg, logged, before>>

\* LogQueryEvent appends a line or fails; neither changes the answer.
LogQueryEvent ==
  /\ recordQueryAudit
  /\ logged' \in {logged, logged \cup {command}}
  /\ UNCHANGED <<env, file, unsaved, up, gateway, stage, arg, reply, sent, before>>

(* IntrospectSchema: four reads, and the catalogue may change between two. *)

loadTables(cat) == {t.name : t \in {u \in cat : u.type = "BASE TABLE"}}

\* Columns of views too.
loadColumns(cat) == UNION {{<<t.name, col>> : col \in t.columns} : t \in cat}
loadPrimaryKeys(cat) == UNION {{<<t.name, col>> : col \in t.primaryKey} : t \in cat}
loadForeignKeys(cat) == UNION {{<<t.name, ref>> : ref \in t.references} : t \in cat}

Load(reads) ==
  [tables |-> loadTables(reads[1]), columns |-> loadColumns(reads[2]),
   primaryKeys |-> loadPrimaryKeys(reads[3]), foreignKeys |-> loadForeignKeys(reads[4])]

\* The blob on the wire, field by field.
schemaBlobToProto(blob) ==
  [tables |-> blob.tables, columns |-> blob.columns,
   primaryKeys |-> blob.primaryKeys, foreignKeys |-> blob.foreignKeys]

\* The catalogues four reads in a row can see.
Reads(b) ==
  LET history == Tables[b]
  IN {[i \in 1 .. 4 |-> history[at[i]]] :
        at \in {a \in [1 .. 4 -> 1 .. Len(history)] : \A i \in 1 .. 3 : a[i] <= a[i + 1]}}

IntrospectSchema ==
  /\ Handles(IntrospectKind)
  /\ \/ Answer("FAILED", None)
     \/ /\ gateway # None /\ gateway.database # None
        /\ sessionLive
        /\ \E reads \in Reads(gateway.database) : 
             Answer("OK", schemaBlobToProto(Load(reads)))
  /\ UNCHANGED <<env, file, unsaved, up, gateway, arg, sent, logged, before>>

-----------------------------------------------------------------------------
(* The rest of the process.                                                *)

\* When Run returns the runtime is closed.
Close == gateway' = IF run' = "stopped" THEN None ELSE gateway

RunStep ==
  /\ up
  /\ OpenFails \/ OpenSucceeds \/ LoopStep
  /\ Close
  /\ UNCHANGED <<env, file, unsaved, up, stage, arg, reply, sent, logged, before>>

StreamStep ==
  /\ up
  /\ HeartbeatStep \/ ReceiveAck \/ ReceiveEnds
  /\ UNCHANGED hostVars

\* A query's rows are there to be sent.
HasRows ==
  recv \in {"auditing", "submitting"} /\ Kind[command] = QueryKind /\ reply.code = "OK"

SubmitStep ==
  /\ \/ SubmitOK /\ (HasRows => Encodes(reply.body.row))
     \/ SubmitFails
  /\ arg' = None
  /\ reply' = None
  /\ sent' = None
  /\ before' = None
  /\ UNCHANGED <<env, file, unsaved, up, gateway, stage, logged>>

HostTerminate == Terminate /\ UNCHANGED hostVars

HostCrash ==
  /\ Crash
  /\ file' \in IF stage = "truncated" THEN WriteLeaves(arg) ELSE {file}
  /\ unsaved' = FALSE
  /\ up' = FALSE
  /\ gateway' = None
  /\ stage' = "idle"
  /\ arg' = None
  /\ reply' = None
  /\ sent' = None
  /\ before' = None
  /\ UNCHANGED <<env, logged>>

BootStep == BootUnconfigured \/ BootOpens \/ BootStops

CommandStep ==
  \/ ConfigureRefused
  \/ ConfigureOpens
  \/ ConfigureProbes
  \/ WriteStarts
  \/ WriteFails
  \/ WriteEnds
  \/ swapGateway
  \/ QueryRefused
  \/ QueryNotSent
  \/ QueryRuns
  \/ IntrospectSchema

\* A ping is answered from Receive; it has no step of its own here.
HostNext ==
  \/ BootStep
  \/ RunStep
  \/ StreamStep
  \/ \E c \in Command : executed[c] = 0 /\ ReceiveCommand(c)
  \/ CommandStep
  \/ LogQueryEvent
  \/ SubmitStep
  \/ HostTerminate
  \/ HostCrash

\* As in EdgeAgent; what is asked of the database has a timeout.  That a database
\* which is there can be opened is not assumed: a process may stay in its start.
HostFairness ==
  /\ WF_allVars(BootUnconfigured \/ BootStops)
  /\ WF_allVars(RunStep /\ (run = "dialing" => ~ctxLive))
  /\ WF_allVars(StreamStep /\ HeartbeatStep /\ (beat = "sending" => ~sessionLive))
  /\ WF_allVars(StreamStep /\ ReceiveEnds /\ ~sessionLive)
  /\ WF_allVars(CommandStep \/ LogQueryEvent \/ (SubmitStep /\ ~sessionLive))

HostSpec == HostInit /\ [][HostNext]_allVars
FairHostSpec == HostSpec /\ HostFairness

-----------------------------------------------------------------------------
(* Properties.                                                             *)

\* Every variable keeps its type.
HostTypeOK ==
  /\ AgentTypeOK
  /\ env \in Deployments
  /\ file \in Dsn \cup {None, Blank, Torn}
  /\ unsaved \in BOOLEAN
  /\ up \in BOOLEAN
  /\ gateway \in Dsn \cup {None}
  /\ stage \in {"idle", "probing", "writing", "truncated", "swapping"}
  /\ sent \in Sql \cup {None}
  /\ logged \subseteq Command

\* A restart changes nothing: where no MYSQL_DSN stands above the file, the
\* database an agent serves, or its having none, is what a process started now
\* would take from the file, however often it died while writing it.  Not so
\* while ConfigureDatabase is between the truncation and the swap, and not after
\* a write that failed, until one succeeds.
StoredIsServed ==
  up /\ run # "stopped" /\ stage \notin {"truncated", "swapping"}
     /\ env.direct = None /\ ~unsaved
    => IF LoadedDSN = None THEN gateway = None
       ELSE LoadedDSN \in Dsn /\ gateway = NormalizeDSN(LoadedDSN)

\* The control plane is told the truth about a configuration, in spite of the
\* steps that can fail between the probe and the swap: after OK the new database
\* is served and stored, after an error the one from before is still served.
AnswerMatchesGateway ==
  recv = "submitting" /\ Kind[command] = ConfigureKind =>
    IF reply.code = "OK"
      THEN gateway = NormalizeDSN(arg) /\ file = gateway
      ELSE gateway = before

\* Whatever text arrives, what reaches a database over a connection of one
\* statement at a time is one reading statement that writes no file and takes
\* no exclusive lock anywhere in its tree, that had no comment outside its
\* literals, and that is bounded unless it aggregates or is a SHOW.
OnlyReadsReachMySQL ==
  /\ gateway # None => ~gateway.multi
  /\ sent # None =>
       LET stmt == RewrittenSQL(sent)
           text == Chars[sent]
       IN /\ Len(Parsed[sent]) = 1
          /\ stmt.kind \in ReadKinds
          /\ \A k \in 1 .. Len(stmt.selects) :
               ~stmt.selects[k].into /\ stmt.selects[k].lock \in ShareLocks
          /\ \A i \in Bare(text) : ~CommentStartsAt(text, i)
          /\ stmt.limit \/ stmt.kind = "show" \/ isAggregatedSelect(stmt)

Abs(n) == IF n < 0 THEN -n ELSE n

\* w is v on the wire: NULL is told apart, and only an integer beyond the
\* mantissa of a float64 is rounded, by no more than half of its last bit.
Faithful(v, w) ==
  /\ w.as = "null" <=> v.type = "null"
  /\ v.type # "null" =>
       \/ w.n = v.n
       \/ /\ Integral(v) /\ w.as = "number"
          /\ Abs(v.n) > Mantissa /\ Mantissa * Abs(v.n - w.n) <= Abs(v.n)

\* An answer has a value for every name among the columns, that of the last
\* column with the name, as the database gave it.  (What an earlier column of
\* the same name held is lost.)
RowsAreExact ==
  HasRows /\ Encodes(reply.body.row) =>
    LET got == reply.body.got
        told == queryResultToProto(reply.body.row)
    IN /\ DOMAIN told = {got.columns[k] : k \in DOMAIN got.columns}
       /\ \A k \in DOMAIN got.columns :
            (\A j \in DOMAIN got.columns : got.columns[j] = got.columns[k] => j <= k)
              => Faithful(got.values[k], told[got.columns[k]])
=============================================================================
