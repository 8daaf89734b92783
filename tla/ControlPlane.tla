---------------------------- MODULE ControlPlane ----------------------------
(***************************************************************************)
(* The life of a control-plane process (cmd/control-plane/main.go): its    *)
(* configuration (config/config.go), the schema migration every boot makes *)
(* (db/migrate.go), the connection pool (db/postgres.go), serving and the  *)
(* shutdown on SIGTERM.                                                    *)
(*                                                                         *)
(* Several instances share one database, as in a rolling deployment, and   *)
(* may run different images: b embeds the migrations 1 .. HeadVersion[b],  *)
(* and two images may number different scripts alike (a squashed history). *)
(* The migrator (golang-migrate, external) holds an advisory lock during   *)
(* Up and during Force, but not between them; it records a version as      *)
(* dirty, runs its script and records it as clean, three statements that a *)
(* crash may come between.  A script creates tables and fails if one of    *)
(* them is there already.                                                  *)
(***************************************************************************)
EXTENDS LLMProviders, FiniteSets

CONSTANTS
  Instance, Image, \* processes and what they run
  HeadVersion,    \* HeadVersion[b]: the newest migration of image b
  Script,         \* Script[b][v]: the tables that migration v of image b creates
  Environment,    \* the environments processes are started in
  Width,          \* bits of an int32
  Plain, H2c,     \* requests over HTTP/1.1; requests over h2c connections
  MaxBoots, MaxCrashes,
  None

ASSUME ImageAssumption ==
  HeadVersion \in [Image -> Nat \ {0}] /\ None \notin Image \cup Instance
  /\ Plain \cap H2c = {}

VARIABLES
  version,        \* the recorded migration, 0 for none
  dirty,
  schema,         \* the tables that scripts have created
  writers,        \* the images that have changed the record (history)
  lock,           \* the instance that holds the advisory lock, or None
  stage,          \* stage[i]: where run() is, "off" while there is no process
  image, env,     \* image[i], env[i] of the process, None if there is none
  forced,         \* instances that reset the history in this boot
  signalled,      \* instances that were sent SIGTERM
  request,        \* request[i][c]: "none", "running", "querying", "failed"
  hasty,          \* instances whose shutdown timeout has passed (history)
  boots, crashes  \* counted for the bounds

dbVars == <<version, dirty, schema, writers>>
vars == <<dbVars, lock, stage, image, env, forced, signalled, request, hasty, boots,
          crashes>>

Idle == [c \in Plain \cup H2c |-> "none"]

Init ==
  /\ version = 0 /\ dirty = FALSE /\ schema = {} /\ writers = {}
  /\ lock = None
  /\ stage = [i \in Instance |-> "off"]
  /\ image = [i \in Instance |-> None]
  /\ env = [i \in Instance |-> None]
  /\ forced = {} /\ signalled = {} /\ hasty = {}
  /\ request = [i \in Instance |-> Idle]
  /\ boots = 0 /\ crashes = 0

-----------------------------------------------------------------------------
(* Configuration.                                                          *)

int32(n) == ((n + 2^(Width - 1)) % 2^Width) - 2^(Width - 1)

Load(e) ==
  /\ e.unparsable = {}
  /\ e.maxConns > 0 /\ e.minConns \in 0 .. e.maxConns
  /\ e.healthCheck > 0 /\ e.llmTimeout > 0
  /\ e.database
  /\ e.clerk \/ e.env = "development"
  /\ e.public \/ e.env # "production"

\* At least one provider has a key, the default one among them.
buildLLMRuntime(e) == e.default \in Names /\ e.default \in e.keys

\* The bounds of the pool are checked again after the conversion.
PoolConfig(e) ==
  int32(e.maxConns) > 0 /\ int32(e.minConns) \in 0 .. int32(e.maxConns)

\* Without a secret key anyone with "dev-token" is the developer.
verifier(e) == IF e.clerk THEN "clerk" ELSE "fake"

loadFrontendHandler(e) == e.assets \/ e.env # "production"

-----------------------------------------------------------------------------
(* Start and migration.                                                    *)

\* The process ends: its connections go, and with them the advisory lock.
Exit(i) ==
  /\ stage' = [stage EXCEPT ![i] = "off"]
  /\ lock' = IF lock = i THEN None ELSE lock
  /\ request' = [request EXCEPT ![i] = Idle]
  /\ signalled' = signalled \ {i}
  /\ forced' = forced \ {i}
  /\ hasty' = hasty \ {i}
  /\ image' = [image EXCEPT ![i] = None]
  /\ env' = [env EXCEPT ![i] = None]

Goto(i, s) ==
  /\ stage' = [stage EXCEPT ![i] = s]
  /\ UNCHANGED <<image, env, signalled, request, hasty>>

\* main up to Migrate: a bad configuration ends the process at once.
Boot(i, b, e) ==
  /\ stage[i] = "off" /\ boots < MaxBoots
  /\ boots' = boots + 1
  /\ IF Load(e) /\ buildLLMRuntime(e)
       THEN /\ image' = [image EXCEPT ![i] = b]
            /\ env' = [env EXCEPT ![i] = e]
            /\ stage' = [stage EXCEPT ![i] = "lock"]
       ELSE UNCHANGED <<image, env, stage>>
  /\ UNCHANGED <<dbVars, lock, forced, signalled, request, hasty, crashes>>

Lock(i) ==
  /\ stage[i] = "lock" /\ lock = None
  /\ lock' = i
  /\ Goto(i, "up")
  /\ UNCHANGED <<dbVars, forced, boots, crashes>>

\* The migrator waits 15 seconds for the lock.
LockTimeout(i) ==
  /\ stage[i] \in {"lock", "force"} /\ lock # None
  /\ Exit(i)
  /\ UNCHANGED <<dbVars, boots, crashes>>

\* Fault: a version marked dirty is taken for an applied one.
UpRefused_IgnoresDirty(i) == FALSE

\* Up does nothing with a dirty database.
UpRefused(i) == dirty

\* isMissingMigrationVersionError.
Missing(i) == version \notin 0 .. HeadVersion[image[i]]

\* Up fails: on a dirty database, or on an unknown version after Force.
UpFails(i) ==
  /\ stage[i] = "up"
  /\ UpRefused(i) \/ (Missing(i) /\ i \in forced)
  /\ Exit(i)
  /\ UNCHANGED <<dbVars, boots, crashes>>

UpMissing(i) ==
  /\ stage[i] = "up" /\ ~UpRefused(i) /\ Missing(i) /\ i \notin forced
  /\ lock' = None
  /\ Goto(i, "force")
  /\ UNCHANGED <<dbVars, forced, boots, crashes>>

\* ErrNoChange, or the last script is done.
UpDone(i) ==
  /\ stage[i] = "up" /\ ~UpRefused(i) /\ version = HeadVersion[image[i]]
  /\ lock' = None
  /\ Goto(i, "pool")
  /\ UNCHANGED <<dbVars, forced, boots, crashes>>

MarkDirty(i) ==
  /\ stage[i] = "up" /\ ~UpRefused(i) /\ version < HeadVersion[image[i]]
  /\ version' = version + 1
  /\ dirty' = TRUE
  /\ writers' = writers \cup {image[i]}
  /\ Goto(i, "script")
  /\ UNCHANGED <<schema, lock, forced, boots, crashes>>

RunScript(i) ==
  /\ stage[i] = "script" /\ Script[image[i]][version] \cap schema = {}
  /\ schema' = schema \cup Script[image[i]][version]
  /\ Goto(i, "clean")
  /\ UNCHANGED <<version, dirty, writers, lock, forced, boots, crashes>>

ScriptFails(i) ==
  /\ stage[i] = "script" /\ Script[image[i]][version] \cap schema # {}
  /\ Exit(i)
  /\ UNCHANGED <<dbVars, boots, crashes>>

MarkClean(i) ==
  /\ stage[i] = "clean"
  /\ dirty' = FALSE
  /\ Goto(i, "up")
  /\ UNCHANGED <<version, schema, writers, lock, forced, boots, crashes>>

\* "reset migration history to head version", whatever is recorded by now and
\* whether or not the scripts up to the head have run.
ForceHead(i) ==
  /\ stage[i] = "force" /\ lock = None
  /\ version' = HeadVersion[image[i]]
  /\ dirty' = FALSE
  /\ writers' = writers \cup {image[i]}
  /\ forced' = forced \cup {i}
  /\ Goto(i, "lock")
  /\ UNCHANGED <<schema, lock, boots, crashes>>

\* What the preflight helper reports of the database before image b is
\* deployed.
AtHead(b) == ~dirty /\ version = HeadVersion[b]

\* The migration does not look at the signal; the pool's ping does.
NewPool(i) ==
  /\ stage[i] = "pool"
  /\ IF i \notin signalled /\ PoolConfig(env[i]) /\ loadFrontendHandler(env[i])
       THEN Goto(i, "serving") /\ UNCHANGED <<lock, forced>>
       ELSE Exit(i)
  /\ UNCHANGED <<dbVars, boots, crashes>>

-----------------------------------------------------------------------------
(* Serving and shutdown.                                                   *)

Set(i, c, s) ==
  /\ request' = [request EXCEPT ![i][c] = s]
  /\ UNCHANGED <<dbVars, lock, stage, image, env, forced, signalled, hasty, boots, crashes>>

\* Shutdown closes the listener; connections over h2c were hijacked from the
\* server and go on.
Accept(i, c) ==
  /\ request[i][c] = "none"
  /\ \/ stage[i] = "serving"
     \/ stage[i] \in {"draining", "closing"} /\ c \in H2c
  /\ Set(i, c, "running")

\* A handler takes a connection of the pool; a closed pool has none to give.
Acquire(i, c) ==
  /\ request[i][c] = "running"
  /\ Set(i, c, IF stage[i] = "closing" THEN "failed" ELSE "querying")

PutBack(i, c) ==
  /\ request[i][c] = "querying"
  /\ Set(i, c, "running")

Reply(i, c) ==
  /\ request[i][c] \in {"running", "failed"}
  /\ Set(i, c, "none")

Terminate(i) ==
  /\ stage[i] # "off" /\ i \notin signalled
  /\ signalled' = signalled \cup {i}
  /\ UNCHANGED <<dbVars, lock, stage, image, env, forced, request, hasty, boots, crashes>>

\* Fault: run() returns as soon as ListenAndServe does.
Drain_WaitsForNobody(i) ==
  /\ stage[i] = "serving" /\ i \in signalled
  /\ Goto(i, "closing")
  /\ UNCHANGED <<dbVars, lock, forced, boots, crashes>>

\* The group's context is done: srv.Shutdown begins.
Drain(i) ==
  /\ stage[i] = "serving" /\ i \in signalled
  /\ Goto(i, "draining")
  /\ UNCHANGED <<dbVars, lock, forced, boots, crashes>>

\* ListenAndServe fails, the port being taken.
ListenFails(i) ==
  /\ stage[i] = "serving" /\ request[i] = Idle
  /\ Goto(i, "draining")
  /\ UNCHANGED <<dbVars, lock, forced, boots, crashes>>

\* No request is left that Shutdown knows of; run() returns, pool.Close begins.
Drained(i) ==
  /\ stage[i] = "draining"
  /\ \A c \in Plain : request[i][c] = "none"
  /\ Goto(i, "closing")
  /\ UNCHANGED <<dbVars, lock, forced, boots, crashes>>

\* Fault: Shutdown is given the context without a deadline.
ShutdownTimeout_Never(i) == FALSE /\ UNCHANGED vars

ShutdownTimeout(i) ==
  /\ stage[i] = "draining"
  /\ stage' = [stage EXCEPT ![i] = "closing"]
  /\ hasty' = hasty \cup {i}
  /\ UNCHANGED <<dbVars, lock, image, env, forced, signalled, request, boots, crashes>>

\* pool.Close waits for the connections that are in use.
ClosePool(i) ==
  /\ stage[i] = "closing"
  /\ \A c \in Plain \cup H2c : request[i][c] # "querying"
  /\ Exit(i)
  /\ UNCHANGED <<dbVars, boots, crashes>>

\* A crash, or the loss of the database during the migration.
Crash(i) ==
  /\ stage[i] # "off" /\ crashes < MaxCrashes
  /\ crashes' = crashes + 1
  /\ Exit(i)
  /\ UNCHANGED <<dbVars, boots>>

-----------------------------------------------------------------------------
Migration(i) ==
  \/ Lock(i) \/ LockTimeout(i) \/ UpFails(i) \/ UpMissing(i) \/ UpDone(i)
  \/ MarkDirty(i) \/ RunScript(i) \/ ScriptFails(i) \/ MarkClean(i) \/ ForceHead(i)

Run(i) ==
  Migration(i) \/ NewPool(i) \/ Drain(i) \/ Drained(i) \/ ShutdownTimeout(i)
               \/ ClosePool(i)

Next ==
  \E i \in Instance :
    \/ \E b \in Image, e \in Environment : Boot(i, b, e)
    \/ Run(i)
    \/ \E c \in Plain \cup H2c :
         Accept(i, c) \/ Acquire(i, c) \/ PutBack(i, c) \/ Reply(i, c)
    \/ Terminate(i)
    \/ ListenFails(i)
    \/ Crash(i)

\* The process runs, its timeouts pass, and queries end: every route but the
\* agents' has a timeout, and the agents' queries are short.
Fairness ==
  \A i \in Instance :
    /\ WF_vars(Run(i))
    /\ \A c \in Plain \cup H2c : WF_vars(PutBack(i, c))

Spec == Init /\ [][Next]_vars
FairSpec == Spec /\ Fairness

-----------------------------------------------------------------------------
(* Properties.                                                             *)

Tables == UNION {UNION {Script[b][v] : v \in 1 .. HeadVersion[b]} : b \in Image}
Stage == {"off", "lock", "up", "script", "clean", "force", "pool", "serving",
          "draining", "closing"}

\* Every variable keeps its type.
TypeOK ==
  /\ version \in Nat /\ dirty \in BOOLEAN /\ schema \subseteq Tables
  /\ writers \subseteq Image
  /\ lock \in Instance \cup {None}
  /\ stage \in [Instance -> Stage]
  /\ image \in [Instance -> Image \cup {None}]
  /\ env \in [Instance -> Environment \cup {None}]
  /\ forced \subseteq Instance /\ signalled \subseteq Instance /\ hasty \subseteq Instance
  /\ request \in [Instance -> [Plain \cup H2c -> {"none", "running", "querying", "failed"}]]
  /\ boots \in Nat /\ crashes \in Nat

Up_ == {"serving", "draining", "closing"}

\* Every image that has changed the record numbers its migrations as b does,
\* as far as both go: there was no squashed history.
SharesNumbering(b) ==
  \A w \in writers : \A v \in 1 .. HeadVersion[b] :
    v <= HeadVersion[w] => Script[w][v] = Script[b][v]

\* The migrations of b up to version n, as far as b has them, took effect.
InEffect(b, n) ==
  \A v \in 1 .. HeadVersion[b] : v <= n => Script[b][v] \subseteq schema

\* A process whose migrations were numbered alike by every image before it
\* serves only if all of them have taken effect: through crashes between the
\* three statements of a migration, through instances of older and newer images
\* that migrate, fail and reset the history at the same time, and through
\* roll-backs.  After an image with another numbering the record says nothing,
\* and the code serves all the same.
ServesItsSchema ==
  \A i \in Instance :
    stage[i] \in Up_ /\ SharesNumbering(image[i]) =>
      InEffect(image[i], HeadVersion[image[i]])

\* What makes it inductive.  To images that number migrations as the writers of
\* the record do the record is earned: every migration up to the recorded version
\* has taken effect, except one that is marked dirty.
RecordIsEarned ==
  \A b \in Image : \A v \in 1 .. HeadVersion[b] :
    SharesNumbering(b) /\ (v < version \/ (v = version /\ ~dirty)) =>
      Script[b][v] \subseteq schema

\* The advisory lock is held by the one instance that is inside Up, and what
\* it has marked is what it runs.
LockInv ==
  \A i \in Instance :
    /\ stage[i] \in {"up", "script", "clean"} <=> lock = i
    /\ stage[i] \in {"script", "clean"} =>
         dirty /\ image[i] \in writers /\ version \in 1 .. HeadVersion[image[i]]
    /\ stage[i] = "clean" => Script[image[i]][version] \subseteq schema
    /\ stage[i] # "off" => image[i] \in Image

\* What a build is about to record by force is in effect for all who share the
\* numbering, and a build past its migration has all it needs.
PastInv ==
  \A i \in Instance, b, own \in Image :
    image[i] = own /\ SharesNumbering(b) =>
      /\ stage[i] = "force" => InEffect(b, HeadVersion[own])
      /\ stage[i] \in {"pool"} \cup Up_ /\ b = own => InEffect(b, HeadVersion[own])

SchemaInv == TypeOK /\ RecordIsEarned /\ LockInv /\ PastInv

\* What the preflight helper calls at head has every migration of the image, if
\* the image shares the numbering of those that made the record.
AtHeadIsMigrated ==
  \A b \in Image : AtHead(b) /\ SharesNumbering(b) => InEffect(b, HeadVersion[b])

\* A request that the server knows of never finds the pool closed, unless it
\* outlasted the shutdown timeout: the pool is closed after the last of them.
\* (The agents' calls over h2c are cut, whatever they are doing.)
DrainsBeforeClosing ==
  \A i \in Instance : \A c \in Plain : request[i][c] = "failed" => i \in hasty

\* What makes it inductive.
DrainInv ==
  \A i \in Instance : \A c \in Plain :
    /\ stage[i] = "closing" /\ i \notin hasty => request[i][c] = "none"
    /\ request[i][c] = "failed" => stage[i] = "closing"

\* A process that was told to stop ends, in whatever stage the signal finds it
\* and however long its requests and streams last.
TerminateExits ==
  \A i \in Instance : i \in signalled ~> stage[i] = "off"
=============================================================================
