--------------------------- MODULE SemanticLayers ---------------------------
(***************************************************************************)
(* Schema versions and semantic layers of one tenant: SchemaController     *)
(* (controller/schema.go, repository/schema.go), which stores what the     *)
(* agent finds in the customer's database, and SemanticLayerController     *)
(* (controller/semantic_layer.go, repository/semantic_layer.go), which     *)
(* drafts, edits and approves descriptions of a stored version.            *)
(*                                                                         *)
(* Requests overlap between their statements.  A transaction is one step:  *)
(* both of them lock the rows they change, and two that overlap without    *)
(* having waited for each other collide on a unique index or deadlock, so  *)
(* that one is rolled back and its request fails (Abandon).                *)
(*                                                                         *)
(* Of a schema its tables are kept, of a layer the description of each     *)
(* table and the source tables that its entities and metrics name.         *)
(* Columns, keys and the texts of entities and metrics are left out.       *)
(***************************************************************************)
EXTENDS Naturals, Sequences

CONSTANTS
  Request,        \* requests under way, at most
  Table,          \* tables that the customer's database may have
  Sources,        \* sets of tables that the LLM may name in entities and metrics
  Text,           \* descriptions, "" among them
  AgentTime,      \* what the clock of the agent's host may show
  MaxClock, MaxVersions, MaxLayers

ASSUME TextAssumption == "" \in Text /\ AgentTime \subseteq Nat
ASSUME BoundsAssumption == MaxClock \in Nat /\ MaxVersions \in Nat /\ MaxLayers \in Nat

Status == {"draft", "approved", "archived"}
Schema == SUBSET Table
Content == [tables : UNION {[s -> Text] : s \in Schema}, sources : Sources]

VARIABLES
  db,             \* tables of the customer's database (outside this system)
  clock,          \* of the control plane: orders approved_at
  versions,       \* tenant_schemas, in the order of their inserts
  layers,         \* tenant_semantic_layers, in the order of their inserts
  task            \* task[r]: what request r has in hand

layerVars == <<db, clock, versions, layers, task>>

Idle == [pc |-> "idle"]

Init ==
  /\ db \in Schema
  /\ clock = 0
  /\ versions = << >>
  /\ layers = << >>
  /\ task = [r \in Request |-> Idle]

Set(r, t) == task' = [task EXCEPT ![r] = t]
Tick == clock < MaxClock /\ clock' = clock + 1

-----------------------------------------------------------------------------
(* Schema capture.                                                         *)

(* The customer changes the database.                                      *)
Alter == db' \in Schema \ {db} /\ UNCHANGED <<clock, versions, layers, task>>

(* SchemaController.Capture: the agent's answer is here, with the time of  *)
(* completion that its host's clock shows: two answers may have one time,  *)
(* and a later one an earlier time.  Nothing is stored yet.                *)
IntrospectSchema(r) ==
  /\ task[r] = Idle
  /\ \E at \in AgentTime : Set(r, [pc |-> "captured", schema |-> db, at |-> at])
  /\ UNCHANGED <<db, clock, versions, layers>>

(* LatestByTenant: ORDER BY captured_at DESC, created_at DESC; 0 is        *)
(* ErrNotFound.                                                            *)
LatestByTenant(vs) ==
  IF vs = << >> THEN 0
  ELSE CHOOSE v \in DOMAIN vs :
         \A w \in DOMAIN vs : vs[w].at < vs[v].at \/ (vs[w].at = vs[v].at /\ w <= v)

(* latest.SchemaHash == hash                                               *)
SameAsLatest(schema) ==
  /\ versions # << >>
  /\ versions[LatestByTenant(versions)].schema = schema

(* The look-up of the latest version: equal, and nothing is stored, not    *)
(* even the new time; or different, and a version is to be inserted.       *)
Unchanged(r) ==
  /\ task[r].pc = "captured"
  /\ SameAsLatest(task[r].schema)
  /\ Set(r, Idle)
  /\ UNCHANGED <<db, clock, versions, layers>>

Changed(r) ==
  /\ task[r].pc = "captured"
  /\ ~SameAsLatest(task[r].schema)
  /\ Set(r, [task[r] EXCEPT !.pc = "create"])
  /\ UNCHANGED <<db, clock, versions, layers>>

(* TenantSchemaRepository.Create                                           *)
CreateVersion(r) ==
  /\ task[r].pc = "create"
  /\ Len(versions) < MaxVersions
  /\ versions' = Append(versions, [schema |-> task[r].schema, at |-> task[r].at])
  /\ Set(r, Idle)
  /\ UNCHANGED <<db, clock, layers>>

-----------------------------------------------------------------------------
(* Semantic layers.                                                        *)

(* The described tables are those of the schema, whatever the LLM          *)
(* described; the source tables of entities and metrics are what it named. *)
hydrateSemanticLayerFromSchema(schema, generated) ==
  [tables |-> [t \in schema |->
                 IF t \in DOMAIN generated.tables THEN generated.tables[t] ELSE ""],
   sources |-> generated.sources]

(* Descriptions as edited, where the editor sent one.                      *)
Edit(tables, base, edited) ==
  [t \in tables |-> IF t \in DOMAIN edited.tables THEN edited.tables[t] ELSE base.tables[t]]

\* Fault: tables the editor sends are added.
mergeEditableDescriptions_TakesTables(base, edited) ==
  [base EXCEPT !.tables = Edit(DOMAIN base.tables \cup DOMAIN edited.tables, base, edited)]

(* Tables, entities and metrics are those of the base, whatever the editor *)
(* sent.                                                                   *)
mergeEditableDescriptions(base, edited) ==
  [base EXCEPT !.tables = Edit(DOMAIN base.tables, base, edited)]

(* Only the described tables are looked at.                                *)
validateSemanticLayerContent(content) == DOMAIN content.tables # {}

Store(v, content) == [pc |-> "store", ver |-> v, content |-> content]

(* SemanticLayerController.Draft up to its transaction; v is any version   *)
(* of the tenant, and generated what the LLM answered.                     *)
Draft(r) ==
  /\ task[r] = Idle
  /\ \E v \in DOMAIN versions, generated \in Content :
       LET content == hydrateSemanticLayerFromSchema(versions[v].schema, generated)
       IN  /\ validateSemanticLayerContent(content)
           /\ Set(r, Store(v, content))
  /\ UNCHANGED <<db, clock, versions, layers>>

(* SemanticLayerController.Update up to its transaction: drafts and        *)
(* approved layers can be edited, archived ones not.                       *)
Update(r) ==
  /\ task[r] = Idle
  /\ \E i \in DOMAIN layers, edited \in Content :
       LET merged == mergeEditableDescriptions(layers[i].content, edited)
       IN  /\ layers[i].status # "archived"
           /\ validateSemanticLayerContent(merged)
           /\ Set(r, Store(layers[i].ver, merged))
  /\ UNCHANGED <<db, clock, versions, layers>>

(* UPDATE ... SET status = 'archived' on the rows of version v that have   *)
(* one of the statuses, row i excepted.                                    *)
Archive(v, statuses, i) ==
  [j \in DOMAIN layers |->
     IF j # i /\ layers[j].ver = v /\ layers[j].status \in statuses
     THEN [layers[j] EXCEPT !.status = "archived"] ELSE layers[j]]

\* Fault: the approved layer is archived with the prior draft.
CreateDraftVersion_ArchivesAll(r) ==
  /\ task[r].pc = "store"
  /\ Len(layers) < MaxLayers
  /\ layers' = Append(Archive(task[r].ver, {"draft", "approved"}, 0),
                      [ver |-> task[r].ver, status |-> "draft",
                       content |-> task[r].content, at |-> 0])
  /\ Set(r, Idle)
  /\ UNCHANGED <<db, clock, versions>>

\* Fault: prior drafts are not archived.
CreateDraftVersion_ArchivesNone(r) ==
  /\ task[r].pc = "store"
  /\ Len(layers) < MaxLayers
  /\ layers' = Append(layers, [ver |-> task[r].ver, status |-> "draft",
                               content |-> task[r].content, at |-> 0])
  /\ Set(r, Idle)
  /\ UNCHANGED <<db, clock, versions>>

(* TenantSemanticLayerRepository.CreateDraftVersion; approved_at is null.  *)
CreateDraftVersion(r) ==
  /\ task[r].pc = "store"
  /\ Len(layers) < MaxLayers
  /\ layers' = Append(Archive(task[r].ver, {"draft"}, 0),
                      [ver |-> task[r].ver, status |-> "draft",
                       content |-> task[r].content, at |-> 0])
  /\ Set(r, Idle)
  /\ UNCHANGED <<db, clock, versions>>

(* SemanticLayerController.Approve up to its transaction: an archived      *)
(* layer is refused, an approved one returned as it is.  The approval time *)
(* is taken here.                                                          *)
Approve(r) ==
  /\ task[r] = Idle
  /\ Tick
  /\ \E i \in DOMAIN layers :
       /\ layers[i].status = "draft"
       /\ Set(r, [pc |-> "approve", layer |-> i, at |-> clock + 1])
  /\ UNCHANGED <<db, versions, layers>>

updateApproval(ls, i, at) == [ls EXCEPT ![i].status = "approved", ![i].at = at]

(* TenantSemanticLayerRepository.Approve: the row is locked and read       *)
(* again, but its status is not tested again.                              *)
ApproveLayer(r) ==
  /\ task[r].pc = "approve"
  /\ LET i == task[r].layer
         peers == Archive(layers[i].ver, {"draft", "approved"}, i)
     IN  layers' = updateApproval(peers, i, task[r].at)
  /\ Set(r, Idle)
  /\ UNCHANGED <<db, clock, versions>>

(* A request fails: the agent, the LLM or a statement returned an error,   *)
(* or the context is done.                                                 *)
Abandon(r) ==
  /\ task[r] # Idle
  /\ Set(r, Idle)
  /\ UNCHANGED <<db, clock, versions, layers>>

LayersNext ==
  \/ Alter
  \/ \E r \in Request :
       \/ IntrospectSchema(r) \/ Unchanged(r) \/ Changed(r) \/ CreateVersion(r)
       \/ Draft(r) \/ Update(r) \/ CreateDraftVersion(r)
       \/ Approve(r) \/ ApproveLayer(r) \/ Abandon(r)

-----------------------------------------------------------------------------
(* Properties.                                                             *)

Task ==
  {Idle}
  \cup [pc : {"captured", "create"}, schema : Schema, at : AgentTime]
  \cup [pc : {"store"}, ver : DOMAIN versions, content : Content]
  \cup [pc : {"approve"}, layer : DOMAIN layers, at : 1 .. MaxClock]

(* Types of the state.                                                     *)
LayersTypeOK ==
  /\ db \in Schema
  /\ clock \in 0 .. MaxClock
  /\ versions \in Seq([schema : Schema, at : AgentTime])
  /\ layers \in Seq([ver : DOMAIN versions, status : Status, content : Content,
                     at : 0 .. MaxClock])
  /\ task \in [Request -> Task]

With(v, status) == {i \in DOMAIN layers : layers[i].ver = v /\ layers[i].status = status}

(* A version has at most one draft and at most one approved layer, as the  *)
(* partial unique indexes tenant_semantic_layers_one_draft_idx and         *)
(* one_approved_idx demand: no transaction that runs by itself is refused. *)
OneDraftOneApproved ==
  \A v \in DOMAIN versions, status \in {"draft", "approved"} :
    \A i, j \in With(v, status) : i = j

(* The tables a layer describes are exactly those of the schema version it *)
(* belongs to, at least one, through any chain of drafts and edits,        *)
(* although descriptions come back from an LLM and an editor for whatever  *)
(* tables they like.  The source tables of its entities and metrics are    *)
(* not held to the schema by the code, and the property does not say so.   *)
LayersFitTheirSchema ==
  \A i \in DOMAIN layers :
    /\ DOMAIN layers[i].content.tables = versions[layers[i].ver].schema
    /\ versions[layers[i].ver].schema # {}

(* A version that has an approved layer keeps one: no draft, edit, retry   *)
(* or racing approval leaves questions without the approved layer they had *)
(* (query_prepare.go would fall back to a draft or the raw schema).        *)
ApprovedNeverVanishes ==
  [][\A v \in DOMAIN versions :
       With(v, "approved") # {} => With(v, "approved")' # {}]_layerVars
=============================================================================
