------------------------ MODULE ControlPlaneProofs ------------------------
(* The schema a serving process relies on, for every number of instances,  *)
(* images, migrations, boots and crashes.                                  *)
EXTENDS ControlPlane, TLAPS

\* What depends on the database alone.
LEMMA SameDatabase ==
  ASSUME UNCHANGED dbVars
  PROVE  /\ \A b : SharesNumbering(b)' <=> SharesNumbering(b)
         /\ \A b, n : InEffect(b, n)' <=> InEffect(b, n)
         /\ RecordIsEarned' <=> RecordIsEarned
BY DEF dbVars, SharesNumbering, InEffect, RecordIsEarned

\* Tables are never dropped and writers never forgotten.
LEMMA DatabaseGrows ==
  ASSUME schema \subseteq schema', writers \subseteq writers'
  PROVE  /\ \A b : SharesNumbering(b)' => SharesNumbering(b)
         /\ \A b, n : InEffect(b, n) => InEffect(b, n)'
BY DEF SharesNumbering, InEffect

\* A process that ends takes the advisory lock with it and leaves the database
\* as it is; the invariant asks nothing of a process that is off.
LEMMA ExitInv ==
  ASSUME SchemaInv, NEW i \in Instance, Exit(i), UNCHANGED dbVars,
         boots' \in Nat, crashes' \in Nat
  PROVE SchemaInv'
<1> USE ImageAssumption DEF SchemaInv, Exit
<1>1. Idle \in [Plain \cup H2c -> {"none", "running", "querying", "failed"}]
  BY DEF Idle
<1>2. TypeOK'
  BY <1>1 DEF TypeOK, Stage, Tables, dbVars
<1>3. RecordIsEarned'
  BY SameDatabase
<1>4. LockInv'
  BY DEF LockInv, TypeOK, dbVars
<1>5. PastInv'
  BY SameDatabase DEF PastInv, TypeOK, Up_
<1> QED
  BY <1>2, <1>3, <1>4, <1>5

\* The initial state: nothing is recorded and nobody is there.
LEMMA InitSchemaInv == Init => SchemaInv
<1> SUFFICES ASSUME Init PROVE SchemaInv
  OBVIOUS
<1> USE ImageAssumption DEF Init, Idle
<1>1. TypeOK
  BY DEF TypeOK, Stage
<1>2. RecordIsEarned
  BY DEF RecordIsEarned
<1>3. LockInv /\ PastInv
  BY DEF LockInv, PastInv, Up_
<1> QED
  BY <1>1, <1>2, <1>3 DEF SchemaInv

\* A boot starts before the migration.
LEMMA BootInv ==
  ASSUME SchemaInv, NEW i \in Instance, NEW b \in Image, NEW e \in Environment,
         Boot(i, b, e)
  PROVE SchemaInv'
<1> USE ImageAssumption DEF SchemaInv, Boot
<1>1. TypeOK'
  <2>1. image' \in [Instance -> Image \cup {None}]
        /\ env' \in [Instance -> Environment \cup {None}]
        /\ stage' \in [Instance -> Stage]
    BY DEF TypeOK, Stage
  <2>2. boots' \in Nat
    BY DEF TypeOK
  <2> QED
    BY <2>1, <2>2 DEF TypeOK, Tables, dbVars
<1>2. RecordIsEarned'
  BY SameDatabase
<1>3. LockInv'
  BY DEF LockInv, TypeOK, dbVars
<1>4. PastInv'
  BY SameDatabase DEF PastInv, TypeOK, Up_
<1> QED
  BY <1>1, <1>2, <1>3, <1>4

\* A step of one process that leaves the database alone and neither takes nor
\* drops the lock, within the stages after the migration.
LEMMA LaterInv ==
  ASSUME SchemaInv, NEW i \in Instance, NEW s \in Up_,
         stage[i] \in {"pool"} \cup Up_,
         stage' = [stage EXCEPT ![i] = s],
         UNCHANGED <<dbVars, lock, image>>,
         TypeOK'
  PROVE SchemaInv'
<1> USE DEF SchemaInv
<1>1. RecordIsEarned'
  BY SameDatabase
<1>2. LockInv'
  BY DEF LockInv, TypeOK, Up_, dbVars
<1>3. PastInv'
  BY SameDatabase DEF PastInv, TypeOK, Up_
<1> QED
  BY <1>1, <1>2, <1>3

\* The steps of the migration.
LEMMA MigrationInv ==
  ASSUME SchemaInv, NEW i \in Instance, Migration(i)
  PROVE SchemaInv'
<1> USE ImageAssumption DEF SchemaInv, Goto
<1>t. TypeOK /\ RecordIsEarned /\ LockInv /\ PastInv
  OBVIOUS
<1>h. stage[i] # "off" => image[i] \in Image /\ HeadVersion[image[i]] \in Nat \ {0}
  BY DEF LockInv
<1>1. CASE Lock(i)
  <2>1. TypeOK'
    BY <1>1 DEF Lock, TypeOK, Stage, Tables, dbVars
  <2>2. RecordIsEarned'
    BY <1>1, SameDatabase DEF Lock
  <2>3. LockInv'
    BY <1>1 DEF Lock, LockInv, TypeOK, dbVars
  <2>4. PastInv'
    BY <1>1, SameDatabase DEF Lock, PastInv, TypeOK, Up_
  <2> QED
    BY <2>1, <2>2, <2>3, <2>4
<1>2. CASE LockTimeout(i) \/ UpFails(i) \/ ScriptFails(i)
  BY <1>2, ExitInv DEF LockTimeout, UpFails, ScriptFails, TypeOK
<1>3. CASE UpMissing(i)
  <2>1. TypeOK'
    BY <1>3 DEF UpMissing, TypeOK, Stage, Tables, dbVars
  <2>2. RecordIsEarned'
    BY <1>3, SameDatabase DEF UpMissing
  <2>3. LockInv'
    BY <1>3 DEF UpMissing, LockInv, TypeOK, dbVars
  <2>4. ~dirty /\ version > HeadVersion[image[i]]
    BY <1>3, <1>h DEF UpMissing, UpRefused, Missing, TypeOK
  <2>5. ASSUME NEW b \in Image, SharesNumbering(b)
        PROVE  InEffect(b, HeadVersion[image[i]])
    BY <1>3, <1>h, <2>4, <2>5 DEF UpMissing, RecordIsEarned, InEffect, TypeOK
  <2>6. PastInv'
    BY <1>3, <2>5, SameDatabase DEF UpMissing, PastInv, TypeOK, Up_
  <2> QED
    BY <2>1, <2>2, <2>3, <2>6
<1>4. CASE UpDone(i)
  <2>1. TypeOK'
    BY <1>4 DEF UpDone, TypeOK, Stage, Tables, dbVars
  <2>2. RecordIsEarned'
    BY <1>4, SameDatabase DEF UpDone
  <2>3. LockInv'
    BY <1>4 DEF UpDone, LockInv, TypeOK, dbVars
  <2>4. ASSUME NEW b \in Image, b = image[i], SharesNumbering(b)
        PROVE  InEffect(b, HeadVersion[b])
    <3>1. ~dirty /\ version = HeadVersion[b]
      BY <1>4, <2>4 DEF UpDone, UpRefused
    <3>2. \A v \in 1 .. HeadVersion[b] : v < version \/ v = version
      <4>1. HeadVersion[b] \in Nat
        OBVIOUS
      <4> QED
        BY <3>1, <4>1
    <3> QED
      BY <1>t, <2>4, <3>1, <3>2 DEF RecordIsEarned, InEffect
  <2>5. PastInv'
    BY <1>4, <2>4, SameDatabase DEF UpDone, PastInv, TypeOK, Up_
  <2> QED
    BY <2>1, <2>2, <2>3, <2>5
<1>5. CASE MarkDirty(i)
  <2>1. TypeOK'
    <3>1. version' \in Nat /\ dirty' \in BOOLEAN /\ writers' \subseteq Image
      BY <1>5, <1>h DEF MarkDirty, TypeOK
    <3>2. stage' \in [Instance -> Stage]
      BY <1>5 DEF MarkDirty, TypeOK, Stage
    <3> QED
      BY <1>5, <3>1, <3>2 DEF MarkDirty, TypeOK, Tables
  <2>2. /\ schema \subseteq schema' /\ writers \subseteq writers'
        /\ ~dirty /\ dirty' /\ version' = version + 1 /\ version \in Nat
    BY <1>5 DEF MarkDirty, UpRefused, TypeOK
  <2>3. RecordIsEarned'
    <3> SUFFICES ASSUME NEW b \in Image, NEW v \in 1 .. HeadVersion[b],
                        SharesNumbering(b)', v < version'
                 PROVE  Script[b][v] \subseteq schema'
      BY <2>2 DEF RecordIsEarned
    <3>1. SharesNumbering(b)
      BY <2>2, DatabaseGrows
    <3>2. v < version \/ v = version
      BY <2>2
    <3> QED
      BY <2>2, <3>1, <3>2 DEF RecordIsEarned
  <2>4. version' \in 1 .. HeadVersion[image[i]] /\ image[i] \in writers'
    BY <1>5, <1>h, <2>2 DEF MarkDirty
  <2>5. LockInv'
    BY <1>5, <2>4 DEF MarkDirty, LockInv, TypeOK
  <2>6. PastInv'
    BY <1>5, <2>2, DatabaseGrows DEF MarkDirty, PastInv, TypeOK, Up_
  <2> QED
    BY <2>1, <2>3, <2>5, <2>6
<1>6. CASE RunScript(i)
  <2>0. /\ schema' = schema \cup Script[image[i]][version] /\ UNCHANGED <<version, dirty, writers>>
        /\ image[i] \in Image /\ version \in 1 .. HeadVersion[image[i]]
    BY <1>6, <1>h DEF RunScript, LockInv
  <2>1. TypeOK'
    <3>1. Script[image[i]][version] \subseteq Tables
      BY <2>0 DEF Tables
    <3>2. schema' \subseteq Tables'
      BY <2>0, <3>1 DEF TypeOK, Tables
    <3> QED
      BY <1>6, <3>2 DEF RunScript, TypeOK, Stage
  <2>2. RecordIsEarned'
    BY <2>0, DatabaseGrows DEF RecordIsEarned
  <2>3. LockInv'
    BY <1>6, <2>0 DEF RunScript, LockInv, TypeOK
  <2>4. PastInv'
    BY <1>6, <2>0, DatabaseGrows DEF RunScript, PastInv, TypeOK, Up_
  <2> QED
    BY <2>1, <2>2, <2>3, <2>4
<1>7. CASE MarkClean(i)
  <2>1. TypeOK'
    BY <1>7 DEF MarkClean, TypeOK, Stage, Tables
  <2>2. /\ dirty /\ image[i] \in writers /\ version \in 1 .. HeadVersion[image[i]]
        /\ Script[image[i]][version] \subseteq schema
        /\ UNCHANGED <<version, schema, writers>>
    BY <1>7 DEF MarkClean, LockInv
  <2>3. RecordIsEarned'
    <3> SUFFICES ASSUME NEW b \in Image, NEW v \in 1 .. HeadVersion[b],
                        SharesNumbering(b)', v < version \/ v = version
                 PROVE  Script[b][v] \subseteq schema
      BY <2>2 DEF RecordIsEarned
    <3>1. SharesNumbering(b)
      BY <2>2, DatabaseGrows
    <3>2. CASE v < version
      BY <1>t, <3>1, <3>2 DEF RecordIsEarned
    <3>3. CASE v = version
      BY <1>h, <2>2, <3>1, <3>3 DEF SharesNumbering
    <3> QED
      BY <3>2, <3>3
  <2>4. LockInv'
    BY <1>7 DEF MarkClean, LockInv, TypeOK
  <2>5. PastInv'
    BY <1>7, <2>2, DatabaseGrows DEF MarkClean, PastInv, TypeOK, Up_
  <2> QED
    BY <2>1, <2>3, <2>4, <2>5
<1>8. CASE ForceHead(i)
  <2>0. /\ schema' = schema /\ writers \subseteq writers' /\ ~dirty'
        /\ image[i] \in Image /\ version' = HeadVersion[image[i]]
    BY <1>8, <1>h DEF ForceHead
  <2>1. TypeOK'
    BY <1>8, <1>h DEF ForceHead, TypeOK, Stage, Tables
  <2>2. RecordIsEarned'
    <3> SUFFICES ASSUME NEW b \in Image, NEW v \in 1 .. HeadVersion[b],
                        SharesNumbering(b)', v < version' \/ v = version'
                 PROVE  Script[b][v] \subseteq schema'
      BY <2>0 DEF RecordIsEarned
    <3>1. SharesNumbering(b)
      BY <2>0, DatabaseGrows
    <3>2. InEffect(b, HeadVersion[image[i]])
      BY <1>8, <2>0, <3>1 DEF ForceHead, PastInv
    <3> QED
      BY <1>h, <2>0, <3>2 DEF InEffect
  <2>3. LockInv'
    BY <1>8 DEF ForceHead, LockInv, TypeOK
  <2>4. PastInv'
    BY <1>8, <2>0, DatabaseGrows DEF ForceHead, PastInv, TypeOK, Up_
  <2> QED
    BY <2>1, <2>2, <2>3, <2>4
<1> QED
  BY <1>1, <1>2, <1>3, <1>4, <1>5, <1>6, <1>7, <1>8 DEF Migration

\* Starting to serve, serving and shutting down.
LEMMA ServingInv ==
  ASSUME SchemaInv, NEW i \in Instance,
         \/ NewPool(i) \/ Drain(i) \/ Drained(i) \/ ShutdownTimeout(i) \/ ClosePool(i)
         \/ ListenFails(i)
  PROVE SchemaInv'
<1>t. TypeOK
  BY DEF SchemaInv
<1>1. CASE NewPool(i)
  <2>1. CASE Exit(i)
    BY <1>1, <1>t, <2>1, ExitInv DEF NewPool, TypeOK
  <2>2. CASE Goto(i, "serving") /\ UNCHANGED <<lock, forced>>
    <3>1. TypeOK'
      BY <1>1, <1>t, <2>2 DEF NewPool, Goto, dbVars, TypeOK, Stage
    <3> QED
      BY <1>1, <2>2, <3>1, LaterInv DEF NewPool, Goto, dbVars, Up_
  <2> QED
    BY <1>1, <2>1, <2>2 DEF NewPool
<1>2. CASE Drain(i) \/ ListenFails(i)
  <2>1. TypeOK'
    BY <1>2, <1>t DEF Drain, ListenFails, Goto, dbVars, TypeOK, Stage
  <2> QED
    BY <1>2, <2>1, LaterInv DEF Drain, ListenFails, Goto, dbVars, Up_
<1>3. CASE Drained(i) \/ ShutdownTimeout(i)
  <2>1. TypeOK'
    BY <1>3, <1>t DEF Drained, ShutdownTimeout, Goto, dbVars, TypeOK, Stage
  <2> QED
    BY <1>3, <2>1, LaterInv DEF Drained, ShutdownTimeout, Goto, dbVars, Up_
<1>4. CASE ClosePool(i)
  BY <1>4, <1>t, ExitInv DEF ClosePool, TypeOK
<1> QED
  BY <1>1, <1>2, <1>3, <1>4

\* Steps that change neither the database nor where a process is.
LEMMA AsideInv ==
  ASSUME SchemaInv, TypeOK', UNCHANGED <<dbVars, lock, stage, image>>
  PROVE SchemaInv'
<1>1. RecordIsEarned'
  BY SameDatabase DEF SchemaInv
<1>2. LockInv'
  BY DEF SchemaInv, LockInv, dbVars
<1>3. PastInv'
  BY SameDatabase DEF SchemaInv, PastInv
<1> QED
  BY <1>1, <1>2, <1>3 DEF SchemaInv

\* Requests and signals.
LEMMA RequestInv ==
  ASSUME SchemaInv, NEW i \in Instance,
         \/ Terminate(i)
         \/ \E c \in Plain \cup H2c :
              Accept(i, c) \/ Acquire(i, c) \/ PutBack(i, c) \/ Reply(i, c)
  PROVE SchemaInv'
<1>t. TypeOK
  BY DEF SchemaInv
<1>1. CASE Terminate(i)
  <2>1. TypeOK'
    BY <1>1, <1>t DEF Terminate, dbVars, TypeOK
  <2> QED
    BY <1>1, <2>1, AsideInv DEF Terminate, dbVars
<1>2. ASSUME NEW c \in Plain \cup H2c,
             Accept(i, c) \/ Acquire(i, c) \/ PutBack(i, c) \/ Reply(i, c)
      PROVE SchemaInv'
  <2>1. PICK s \in {"none", "running", "querying", "failed"} : Set(i, c, s)
    BY <1>2 DEF Accept, Acquire, PutBack, Reply
  <2>2. TypeOK'
    BY <1>t, <2>1 DEF Set, dbVars, TypeOK
  <2> QED
    BY <2>1, <2>2, AsideInv DEF Set, dbVars
<1> QED
  BY <1>1, <1>2

\* Every step keeps the invariant.
LEMMA NextSchemaInv == SchemaInv /\ [Next]_vars => SchemaInv'
<1> SUFFICES ASSUME SchemaInv, [Next]_vars PROVE SchemaInv'
  OBVIOUS
<1>t. TypeOK
  BY DEF SchemaInv
<1>1. CASE UNCHANGED vars
  <2>1. TypeOK'
    BY <1>1, <1>t DEF vars, dbVars, TypeOK
  <2> QED
    BY <1>1, <2>1, AsideInv DEF vars, dbVars
<1>2. ASSUME NEW i \in Instance, NEW b \in Image, NEW e \in Environment, Boot(i, b, e)
      PROVE SchemaInv'
  BY <1>2, BootInv
<1>3. ASSUME NEW i \in Instance, Run(i) PROVE SchemaInv'
  BY <1>3, MigrationInv, ServingInv DEF Run
<1>4. ASSUME NEW i \in Instance, Crash(i) PROVE SchemaInv'
  <2>1. boots' \in Nat /\ crashes' \in Nat /\ Exit(i) /\ UNCHANGED dbVars
    BY <1>4, <1>t DEF Crash, TypeOK
  <2> QED
    BY <2>1, ExitInv
<1>5. ASSUME NEW i \in Instance, ListenFails(i) PROVE SchemaInv'
  BY <1>5, ServingInv
<1>6. ASSUME NEW i \in Instance,
             \/ Terminate(i)
             \/ \E c \in Plain \cup H2c :
                  Accept(i, c) \/ Acquire(i, c) \/ PutBack(i, c) \/ Reply(i, c)
      PROVE SchemaInv'
  BY <1>6, RequestInv
<1> QED
  BY <1>1, <1>2, <1>3, <1>4, <1>5, <1>6 DEF Next

\* The inductive invariant holds of every behaviour.
THEOREM SchemaInvariance == Spec => []SchemaInv
<1>1. Init => SchemaInv
  BY InitSchemaInv
<1>2. SchemaInv /\ [Next]_vars => SchemaInv'
  BY NextSchemaInv
<1> QED
  BY <1>1, <1>2, PTL DEF Spec

\* A process whose migrations are numbered alike by every image that changed the
\* record serves only if all of them have taken effect, whatever instances of
\* older and newer images migrate, reset, crash and roll back.
THEOREM ServingIsMigrated == Spec => []ServesItsSchema
<1>1. SchemaInv => ServesItsSchema
  BY DEF SchemaInv, LockInv, PastInv, ServesItsSchema, Up_
<1> QED
  BY <1>1, SchemaInvariance, PTL

\* Every step keeps the drained requests drained.
LEMMA NextDrainInv == TypeOK /\ DrainInv /\ [Next]_vars => DrainInv'
<1> SUFFICES ASSUME TypeOK, DrainInv, [Next]_vars PROVE DrainInv'
  OBVIOUS
<1> USE DEF DrainInv
<1>1. CASE UNCHANGED vars
  BY <1>1 DEF vars
<1>2. ASSUME NEW i \in Instance, NEW b \in Image, NEW e \in Environment, Boot(i, b, e)
      PROVE DrainInv'
  BY <1>2 DEF Boot, TypeOK
<1>3. ASSUME NEW i \in Instance, Exit(i) PROVE DrainInv'
  BY <1>3 DEF Exit, Idle, TypeOK
<1>4. ASSUME NEW i \in Instance, NEW s \in Stage \ {"closing"}, Goto(i, s),
             stage[i] # "closing"
      PROVE DrainInv'
  BY <1>4 DEF Goto, TypeOK
<1>5. ASSUME NEW i \in Instance, Drained(i) PROVE DrainInv'
  BY <1>5 DEF Drained, Goto, TypeOK
<1>6. ASSUME NEW i \in Instance, ShutdownTimeout(i) PROVE DrainInv'
  BY <1>6 DEF ShutdownTimeout, TypeOK
<1>7. ASSUME NEW i \in Instance, Terminate(i) PROVE DrainInv'
  BY <1>7 DEF Terminate
<1>8. ASSUME NEW i \in Instance, NEW c \in Plain \cup H2c,
             Accept(i, c) \/ Acquire(i, c) \/ PutBack(i, c) \/ Reply(i, c)
      PROVE DrainInv'
  BY <1>8, ImageAssumption DEF Accept, Acquire, PutBack, Reply, Set, TypeOK
<1>9. ASSUME NEW i \in Instance, Migration(i) PROVE DrainInv'
  <2>1. CASE LockTimeout(i) \/ UpFails(i) \/ ScriptFails(i)
    BY <1>3, <2>1 DEF LockTimeout, UpFails, ScriptFails
  <2>2. CASE ~(LockTimeout(i) \/ UpFails(i) \/ ScriptFails(i))
    <3>1. stage[i] # "closing" /\ \E s \in Stage \ {"closing"} : Goto(i, s)
      BY <1>9, <2>2
         DEF Migration, Lock, UpMissing, UpDone, MarkDirty, RunScript, MarkClean, ForceHead,
             Stage
    <3> QED
      BY <1>4, <3>1
  <2> QED
    BY <2>1, <2>2
<1>10. ASSUME NEW i \in Instance, NewPool(i) \/ Drain(i) \/ ListenFails(i)
       PROVE DrainInv'
  <2>1. stage[i] # "closing" /\ (Exit(i) \/ \E s \in Stage \ {"closing"} : Goto(i, s))
    BY <1>10 DEF NewPool, Drain, ListenFails, Stage
  <2> QED
    BY <1>3, <1>4, <2>1
<1> QED
  BY <1>1, <1>2, <1>3, <1>5, <1>6, <1>7, <1>8, <1>9, <1>10
     DEF Next, Run, ClosePool, Crash

\* The pool is closed under no request that the server waits for.
THEOREM DrainThenClose == Spec => []DrainsBeforeClosing
<1>1. Init => DrainInv
  BY DEF Init, Idle, DrainInv
<1>2. SchemaInv => TypeOK
  BY DEF SchemaInv
<1>3. DrainInv => DrainsBeforeClosing
  BY DEF DrainInv, DrainsBeforeClosing
<1> QED
  BY <1>1, <1>2, <1>3, NextDrainInv, SchemaInvariance, PTL DEF Spec

\* The preflight helper's "at head" can be relied on by an image that shares the
\* numbering of those before it.
THEOREM AtHeadIsTrue == Spec => []AtHeadIsMigrated
<1>1. SchemaInv => AtHeadIsMigrated
  <2> SUFFICES ASSUME RecordIsEarned, NEW b \in Image, AtHead(b), SharesNumbering(b),
                      NEW v \in 1 .. HeadVersion[b]
               PROVE  Script[b][v] \subseteq schema
    BY DEF SchemaInv, AtHeadIsMigrated, InEffect
  <2>1. HeadVersion[b] \in Nat /\ v \in Nat /\ v <= HeadVersion[b]
    BY ImageAssumption
  <2>2. v < version \/ (v = version /\ ~dirty)
    BY <2>1 DEF AtHead
  <2> QED
    BY <2>2 DEF RecordIsEarned
<1> QED
  BY <1>1, SchemaInvariance, PTL
=============================================================================
