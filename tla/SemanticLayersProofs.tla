------------------------ MODULE SemanticLayersProofs ------------------------
(***************************************************************************)
(* Proofs about SemanticLayers and, in the second part, StarterQuestions,  *)
(* for any number of requests, callers, tables, texts and locales and any  *)
(* bounds.                                                                 *)
(***************************************************************************)
EXTENDS StarterQuestions, WellFoundedInduction, FiniteSetTheorems, TLAPS

(* Content on its way into a layer describes the tables of its version.    *)
StoreInv ==
  \A r \in Request :
    task[r].pc = "store" =>
      /\ DOMAIN task[r].content.tables = versions[task[r].ver].schema
      /\ versions[task[r].ver].schema # {}

LayersInv == LayersTypeOK /\ OneDraftOneApproved /\ LayersFitTheirSchema /\ StoreInv

Version == [schema : Schema, at : AgentTime]
Layer == [ver : DOMAIN versions, status : Status, content : Content, at : 0 .. MaxClock]

(* The four shapes of a task, told apart by pc.                            *)
LEMMA TaskShapes ==
  ASSUME NEW t \in Task
  PROVE  /\ t.pc \in {"captured", "create"} => t.schema \in Schema /\ t.at \in AgentTime
         /\ t.pc = "store" => t.ver \in DOMAIN versions /\ t.content \in Content
         /\ t.pc = "approve" => t.layer \in DOMAIN layers /\ t.at \in 1 .. MaxClock
BY DEF Task, Idle

(* Descriptions of some schema and source tables of some answer are        *)
(* content, and content is nothing else.                                   *)
LEMMA ContentIsText ==
  ASSUME NEW s \in Schema, NEW d \in [s -> Text], NEW sources \in Sources
  PROVE  [tables |-> d, sources |-> sources] \in Content
BY DEF Content

LEMMA ContentHasText ==
  ASSUME NEW c \in Content
  PROVE  /\ \E s \in Schema : c.tables \in [s -> Text]
         /\ c.sources \in Sources
         /\ c = [tables |-> c.tables, sources |-> c.sources]
BY DEF Content

(* What the LLM drafted, once it is spread over the schema.                *)
LEMMA Hydrated ==
  ASSUME NEW s \in Schema, NEW generated \in Content
  PROVE  /\ hydrateSemanticLayerFromSchema(s, generated) \in Content
         /\ DOMAIN hydrateSemanticLayerFromSchema(s, generated).tables = s
<1> DEFINE d == [t \in s |-> IF t \in DOMAIN generated.tables
                             THEN generated.tables[t] ELSE ""]
<1>1. PICK g \in Schema : generated.tables \in [g -> Text]
  BY ContentHasText
<1>2. d \in [s -> Text] /\ DOMAIN d = s
  BY <1>1, TextAssumption
<1>3. generated.sources \in Sources
  BY ContentHasText
<1>4. hydrateSemanticLayerFromSchema(s, generated)
        = [tables |-> d, sources |-> generated.sources]
  BY DEF hydrateSemanticLayerFromSchema
<1> HIDE DEF d
<1> QED BY <1>2, <1>3, <1>4, ContentIsText

(* What an editor sent, once it is merged into the base.                   *)
LEMMA Merged ==
  ASSUME NEW base \in Content, NEW edited \in Content
  PROVE  /\ mergeEditableDescriptions(base, edited) \in Content
         /\ DOMAIN mergeEditableDescriptions(base, edited).tables = DOMAIN base.tables
<1> DEFINE d == Edit(DOMAIN base.tables, base, edited)
<1>1. PICK g \in Schema : edited.tables \in [g -> Text]
  BY ContentHasText
<1>2. PICK s \in Schema : base.tables \in [s -> Text]
  BY ContentHasText
<1>3. d \in [s -> Text] /\ DOMAIN d = DOMAIN base.tables
  BY <1>1, <1>2 DEF Edit
<1>4. base.sources \in Sources /\ base = [tables |-> base.tables, sources |-> base.sources]
  BY ContentHasText
<1>5. mergeEditableDescriptions(base, edited) = [tables |-> d, sources |-> base.sources]
  <2> HIDE DEF d
  <2>1. mergeEditableDescriptions(base, edited) = [base EXCEPT !.tables = d]
    BY DEF mergeEditableDescriptions, d
  <2> QED BY <1>4, <2>1
<1> HIDE DEF d
<1> QED BY <1>3, <1>4, <1>5, ContentIsText

(* Archiving changes statuses and nothing else.                            *)
LEMMA Archived ==
  ASSUME LayersTypeOK, NEW v, NEW statuses, NEW i
  PROVE  LET new == Archive(v, statuses, i)
         IN  /\ new \in Seq(Layer)
             /\ Len(new) = Len(layers)
             /\ \A j \in DOMAIN layers :
                  /\ new[j] \in Layer
                  /\ new[j].ver = layers[j].ver
                  /\ new[j].content = layers[j].content
                  /\ new[j].at = layers[j].at
                  /\ new[j].status =
                       IF j # i /\ layers[j].ver = v /\ layers[j].status \in statuses
                       THEN "archived" ELSE layers[j].status
<1> DEFINE new == Archive(v, statuses, i)
<1>1. layers \in Seq(Layer)
  BY DEF LayersTypeOK, Layer
<1>2. \A j \in DOMAIN layers : layers[j] \in Layer
  BY <1>1
<1>3. \A j \in DOMAIN layers : [layers[j] EXCEPT !.status = "archived"] \in Layer
  BY <1>2 DEF Layer, Status
<1>4. DOMAIN new = DOMAIN layers /\ \A j \in DOMAIN layers : new[j] \in Layer
  BY <1>2, <1>3 DEF Archive
<1>5. new \in [1 .. Len(layers) -> Layer]
  BY <1>1, <1>4 DEF Archive
<1>6. new \in Seq(Layer) /\ Len(new) = Len(layers)
  BY <1>1, <1>5
<1>7. ASSUME NEW j \in DOMAIN layers
      PROVE  /\ new[j].ver = layers[j].ver
             /\ new[j].content = layers[j].content
             /\ new[j].at = layers[j].at
             /\ new[j].status =
                  IF j # i /\ layers[j].ver = v /\ layers[j].status \in statuses
                  THEN "archived" ELSE layers[j].status
  <2>1. layers[j] \in Layer
    BY <1>2
  <2> QED BY <2>1 DEF Archive, Layer
<1> QED BY <1>4, <1>6, <1>7

(* Requests keep their types while versions and layers only grow.          *)
LEMMA TasksGrow ==
  ASSUME LayersTypeOK, DOMAIN versions \subseteq DOMAIN versions',
         DOMAIN layers \subseteq DOMAIN layers',
         NEW r \in Request, NEW t \in Task', Set(r, t)
  PROVE  task' \in [Request -> Task']
<1>1. Task \subseteq Task'
  BY DEF Task
<1> QED BY <1>1 DEF LayersTypeOK, Set

(* A step that leaves versions and layers alone and gives r a task.        *)
LEMMA OnlyTask ==
  ASSUME LayersInv, NEW r \in Request, NEW t \in Task, Set(r, t),
         db' = db, clock' \in 0 .. MaxClock, UNCHANGED <<versions, layers>>,
         t.pc = "store" => /\ DOMAIN t.content.tables = versions[t.ver].schema
                           /\ versions[t.ver].schema # {}
  PROVE  LayersInv'
<1>1. Task' = Task
  BY DEF Task
<1>2. task' \in [Request -> Task']
  BY <1>1 DEF LayersInv, LayersTypeOK, Set
<1>3. LayersTypeOK'
  BY <1>2 DEF LayersInv, LayersTypeOK
<1>4. OneDraftOneApproved' /\ LayersFitTheirSchema'
  BY DEF LayersInv, OneDraftOneApproved, LayersFitTheirSchema, With
<1>5. StoreInv'
  <2> SUFFICES ASSUME NEW q \in Request, task'[q].pc = "store"
               PROVE  /\ DOMAIN task'[q].content.tables = versions[task'[q].ver].schema
                      /\ versions[task'[q].ver].schema # {}
    BY DEF StoreInv
  <2>1. CASE q = r
    BY <2>1 DEF Set, LayersInv, LayersTypeOK
  <2>2. CASE q # r
    BY <2>2 DEF Set, LayersInv, LayersTypeOK, StoreInv
  <2> QED BY <2>1, <2>2
<1> QED BY <1>3, <1>4, <1>5 DEF LayersInv

(* A request that returns carries nothing.                                 *)
LEMMA IdleIsTask == Idle \in Task /\ Idle.pc # "store"
BY DEF Task, Idle

(* A new version leaves the old ones where they were.                      *)
LEMMA CreateVersionStep ==
  ASSUME LayersInv, NEW r \in Request, CreateVersion(r)
  PROVE  LayersInv'
<1> USE DEF CreateVersion
<1> DEFINE rec == [schema |-> task[r].schema, at |-> task[r].at]
<1>1. versions \in Seq(Version) /\ layers \in Seq(Layer) /\ task[r] \in Task
  BY DEF LayersInv, LayersTypeOK, Version, Layer
<1>2. rec \in Version
  BY <1>1, TaskShapes DEF Version
<1>3. /\ versions' \in Seq(Version)
      /\ DOMAIN versions \subseteq DOMAIN versions'
      /\ \A v \in DOMAIN versions : versions'[v] = versions[v]
  BY <1>1, <1>2
<1>4. layers \in Seq(Layer')
  <2>1. Layer \subseteq Layer'
    BY <1>3 DEF Layer
  <2> QED BY <1>1, <2>1
<1>5. task' \in [Request -> Task']
  <2>1. Idle \in Task'
    BY DEF Task, Idle
  <2> QED BY <1>3, <2>1, TasksGrow DEF LayersInv
<1>6. LayersTypeOK'
  BY <1>3, <1>4, <1>5 DEF LayersInv, LayersTypeOK, Version, Layer
<1>7. \A i \in DOMAIN layers : layers[i].ver \in DOMAIN versions
  <2>1. \A i \in DOMAIN layers : layers[i] \in Layer
    BY <1>1
  <2> QED BY <2>1 DEF Layer
<1>8. OneDraftOneApproved'
  BY <1>7 DEF LayersInv, OneDraftOneApproved, With
<1>9. LayersFitTheirSchema'
  BY <1>3, <1>7 DEF LayersInv, LayersFitTheirSchema
<1>10. StoreInv'
  <2> SUFFICES ASSUME NEW q \in Request, task'[q].pc = "store"
               PROVE  /\ DOMAIN task'[q].content.tables = versions'[task'[q].ver].schema
                      /\ versions'[task'[q].ver].schema # {}
    BY DEF StoreInv
  <2>1. q # r /\ task'[q] = task[q]
    BY IdleIsTask DEF Set, LayersInv, LayersTypeOK
  <2>2. task[q].ver \in DOMAIN versions
    BY <2>1, TaskShapes DEF LayersInv, LayersTypeOK
  <2> QED BY <1>3, <2>1, <2>2 DEF LayersInv, StoreInv
<1> QED BY <1>6, <1>8, <1>9, <1>10 DEF LayersInv

(* The two transactions change only layers, and one task becomes idle.     *)
LEMMA LayersChange ==
  ASSUME LayersInv, NEW r \in Request, Set(r, Idle), UNCHANGED <<db, clock, versions>>,
         layers' \in Seq(Layer), DOMAIN layers \subseteq DOMAIN layers',
         OneDraftOneApproved', LayersFitTheirSchema'
  PROVE  LayersInv'
<1>1. Layer' = Layer
  BY DEF Layer
<1>2. Idle \in Task'
  BY DEF Task, Idle
<1>3. task' \in [Request -> Task']
  BY <1>2, TasksGrow DEF LayersInv
<1>4. LayersTypeOK'
  BY <1>3 DEF LayersInv, LayersTypeOK, Layer
<1>5. StoreInv'
  BY IdleIsTask DEF Set, LayersInv, LayersTypeOK, StoreInv
<1> QED BY <1>4, <1>5 DEF LayersInv

(* A draft is inserted, and the draft it replaces archived.                *)
LEMMA CreateDraftStep ==
  ASSUME LayersInv, NEW r \in Request, CreateDraftVersion(r)
  PROVE  LayersInv'
<1> DEFINE v == task[r].ver
           old == Archive(v, {"draft"}, 0)
           rec == [ver |-> v, status |-> "draft", content |-> task[r].content, at |-> 0]
<1>1. LayersTypeOK /\ layers \in Seq(Layer) /\ task[r] \in Task /\ task[r].pc = "store"
  BY DEF LayersInv, LayersTypeOK, Layer, CreateDraftVersion
<1>2. v \in DOMAIN versions /\ task[r].content \in Content
  BY <1>1, TaskShapes
<1>3. rec \in Layer
  <2>1. 0 \in 0 .. MaxClock
    BY BoundsAssumption
  <2> QED BY <1>2, <2>1 DEF Layer, Status
<1>4. /\ old \in Seq(Layer)
      /\ Len(old) = Len(layers)
      /\ \A j \in DOMAIN layers :
           /\ old[j].ver = layers[j].ver
           /\ old[j].content = layers[j].content
           /\ old[j].status = IF j # 0 /\ layers[j].ver = v /\ layers[j].status \in {"draft"}
                              THEN "archived" ELSE layers[j].status
  BY <1>1, Archived
<1>5. layers' = Append(old, rec) /\ UNCHANGED versions
  BY DEF CreateDraftVersion
<1> HIDE DEF old
<1> DEFINE n == Len(layers) + 1
<1>6. /\ layers' \in Seq(Layer)
      /\ DOMAIN layers' = DOMAIN layers \cup {n}
      /\ n \notin DOMAIN layers
      /\ layers'[n] = rec
      /\ \A j \in DOMAIN layers : layers'[j] = old[j]
  BY <1>1, <1>3, <1>4, <1>5
<1>7. \A j \in DOMAIN layers : j # 0
  BY <1>1
<1>8. OneDraftOneApproved'
  <2> SUFFICES ASSUME NEW w \in DOMAIN versions, NEW status \in {"draft", "approved"},
                      NEW i \in DOMAIN layers', NEW j \in DOMAIN layers',
                      layers'[i].ver = w, layers'[i].status = status,
                      layers'[j].ver = w, layers'[j].status = status
               PROVE  i = j
    BY <1>5 DEF OneDraftOneApproved, With
  <2>1. CASE i \in DOMAIN layers /\ j \in DOMAIN layers
    <3>1. layers[i].ver = w /\ layers[i].status = status
      BY <1>4, <1>6, <2>1
    <3>2. layers[j].ver = w /\ layers[j].status = status
      BY <1>4, <1>6, <2>1
    <3> QED BY <2>1, <3>1, <3>2 DEF LayersInv, OneDraftOneApproved, With
  <2>2. ASSUME NEW k \in DOMAIN layers, layers'[k].ver = v PROVE layers'[k].status # "draft"
    BY <1>4, <1>6, <1>7, <2>2
  <2>3. CASE i = n
    BY <1>6, <2>2, <2>3
  <2>4. CASE j = n
    BY <1>6, <2>2, <2>4
  <2> QED BY <1>6, <2>1, <2>3, <2>4
<1>9. LayersFitTheirSchema'
  <2> SUFFICES ASSUME NEW i \in DOMAIN layers'
               PROVE  /\ DOMAIN layers'[i].content.tables = versions[layers'[i].ver].schema
                      /\ versions[layers'[i].ver].schema # {}
    BY <1>5 DEF LayersFitTheirSchema
  <2>1. CASE i = n
    BY <1>1, <1>6, <2>1 DEF LayersInv, StoreInv
  <2>2. CASE i \in DOMAIN layers
    BY <1>4, <1>6, <2>2 DEF LayersInv, LayersFitTheirSchema
  <2> QED BY <1>6, <2>1, <2>2
<1> QED BY <1>6, <1>8, <1>9, LayersChange DEF CreateDraftVersion

(* A layer is approved, whatever its status is by now, and the draft and   *)
(* the approved layer next to it are archived.                             *)
LEMMA ApproveStep ==
  ASSUME LayersInv, NEW r \in Request, ApproveLayer(r)
  PROVE  /\ LayersInv'
         /\ \A w \in DOMAIN versions :
              With(w, "approved") # {} => With(w, "approved")' # {}
<1> DEFINE i == task[r].layer
           v == layers[i].ver
           peers == Archive(v, {"draft", "approved"}, i)
<1>1. /\ LayersTypeOK /\ layers \in Seq(Layer) /\ task[r] \in Task /\ task[r].pc = "approve"
      /\ UNCHANGED versions
  BY DEF LayersInv, LayersTypeOK, Layer, ApproveLayer, updateApproval
<1>2. i \in DOMAIN layers /\ task[r].at \in 0 .. MaxClock
  BY <1>1, TaskShapes
<1>3. /\ peers \in Seq(Layer)
      /\ Len(peers) = Len(layers)
      /\ \A j \in DOMAIN layers :
           /\ peers[j] \in Layer
           /\ peers[j].ver = layers[j].ver
           /\ peers[j].content = layers[j].content
           /\ peers[j].status =
                IF j # i /\ layers[j].ver = v /\ layers[j].status \in {"draft", "approved"}
                THEN "archived" ELSE layers[j].status
  BY <1>1, Archived
<1>4. layers' = [peers EXCEPT ![i] = [[peers[i] EXCEPT !.status = "approved"]
                                        EXCEPT !.at = task[r].at]]
  BY DEF ApproveLayer, updateApproval
<1> HIDE DEF peers
<1> DEFINE rec == [[peers[i] EXCEPT !.status = "approved"] EXCEPT !.at = task[r].at]
<1>5. /\ rec \in Layer /\ rec.ver = v /\ rec.status = "approved"
      /\ rec.content = layers[i].content
  <2>1. peers[i] \in Layer /\ peers[i].ver = v /\ peers[i].content = layers[i].content
    BY <1>2, <1>3
  <2> QED BY <1>2, <2>1 DEF Layer, Status
<1> HIDE DEF rec
<1>6. /\ layers' \in Seq(Layer)
      /\ DOMAIN layers' = DOMAIN layers
      /\ layers'[i] = rec
      /\ \A j \in DOMAIN layers : j # i => layers'[j] = peers[j]
  <2>1. layers' = [peers EXCEPT ![i] = rec]
    BY <1>4 DEF rec
  <2> QED BY <1>1, <1>2, <1>3, <1>5, <2>1
<1>7. /\ layers[i].ver = v
      /\ \A j \in DOMAIN layers : layers'[j].ver = layers[j].ver
      /\ \A j \in DOMAIN layers :
           layers'[j].status \in {"draft", "approved"} /\ j # i =>
             layers[j].ver # v /\ layers'[j].status = layers[j].status
  BY <1>2, <1>3, <1>5, <1>6
<1>8. OneDraftOneApproved'
  <2> SUFFICES ASSUME NEW w \in DOMAIN versions, NEW status \in {"draft", "approved"},
                      NEW j \in DOMAIN layers', NEW k \in DOMAIN layers',
                      layers'[j].ver = w, layers'[j].status = status,
                      layers'[k].ver = w, layers'[k].status = status
               PROVE  j = k
    BY <1>1 DEF OneDraftOneApproved, With
  <2>1. CASE j # i /\ k # i
    <3>1. layers[j].ver = w /\ layers[j].status = status
      BY <1>6, <1>7, <2>1
    <3>2. layers[k].ver = w /\ layers[k].status = status
      BY <1>6, <1>7, <2>1
    <3> QED BY <1>6, <3>1, <3>2 DEF LayersInv, OneDraftOneApproved, With
  <2>2. CASE j = i
    BY <1>6, <1>7, <2>2
  <2>3. CASE k = i
    BY <1>6, <1>7, <2>3
  <2> QED BY <2>1, <2>2, <2>3
<1>9. LayersFitTheirSchema'
  BY <1>1, <1>2, <1>3, <1>5, <1>6 DEF LayersInv, LayersFitTheirSchema
<1>10. LayersInv'
  BY <1>6, <1>8, <1>9, LayersChange DEF ApproveLayer, updateApproval
<1>11. ASSUME NEW w \in DOMAIN versions, NEW j \in With(w, "approved")
       PROVE  With(w, "approved")' # {}
  <2>1. j \in DOMAIN layers /\ layers[j].ver = w /\ layers[j].status = "approved"
    BY DEF With
  <2>2. CASE w = v
    <3>1. i \in With(w, "approved")'
      BY <1>2, <1>5, <1>6, <2>2 DEF With
    <3> QED BY <3>1
  <2>3. CASE w # v
    <3>1. layers'[j].ver = w /\ layers'[j].status = "approved" /\ j \in DOMAIN layers'
      BY <1>3, <1>6, <2>1, <2>3
    <3>2. j \in With(w, "approved")'
      BY <3>1 DEF With
    <3> QED BY <3>2
  <2> QED BY <2>2, <2>3
<1> QED BY <1>10, <1>11

(* A new draft leaves the approved layers of every version alone.          *)
LEMMA CreateDraftKeepsApproved ==
  ASSUME LayersInv, NEW r \in Request, CreateDraftVersion(r),
         NEW w, NEW j \in With(w, "approved")
  PROVE  j \in With(w, "approved")'
<1> DEFINE old == Archive(task[r].ver, {"draft"}, 0)
           rec == [ver |-> task[r].ver, status |-> "draft",
                   content |-> task[r].content, at |-> 0]
<1>1. j \in DOMAIN layers /\ layers[j].ver = w /\ layers[j].status = "approved"
  BY DEF With
<1>2. LayersTypeOK /\ layers \in Seq(Layer)
  BY DEF LayersInv, LayersTypeOK, Layer
<1>3. /\ old \in Seq(Layer) /\ Len(old) = Len(layers)
      /\ old[j].ver = w /\ old[j].status = "approved"
  BY <1>1, <1>2, Archived
<1>4. layers' = Append(old, rec)
  BY DEF CreateDraftVersion
<1> HIDE DEF old, rec
<1>5. j \in DOMAIN layers' /\ layers'[j] = old[j]
  BY <1>1, <1>2, <1>3, <1>4
<1> QED BY <1>3, <1>5 DEF With

(* Every step keeps the invariant, and every approved version approved.    *)
LEMMA LayersStep ==
  ASSUME LayersInv, [LayersNext]_layerVars
  PROVE  /\ LayersInv'
         /\ \A w \in DOMAIN versions :
              With(w, "approved") # {} => With(w, "approved")' # {}
<1> DEFINE Kept == \A w \in DOMAIN versions :
                     With(w, "approved") # {} => With(w, "approved")' # {}
<1>0. ASSUME UNCHANGED layers PROVE Kept
  BY <1>0 DEF With
<1>1. CASE UNCHANGED layerVars
  <2>1. LayersInv'
    BY <1>1 DEF layerVars, LayersInv, LayersTypeOK, OneDraftOneApproved,
                LayersFitTheirSchema, StoreInv, With, Task
  <2> QED BY <1>0, <1>1, <2>1 DEF layerVars
<1>2. CASE Alter
  <2>1. LayersInv'
    BY <1>2 DEF Alter, LayersInv, LayersTypeOK, OneDraftOneApproved,
                LayersFitTheirSchema, StoreInv, With, Task
  <2> QED BY <1>0, <1>2, <2>1 DEF Alter
<1>3. ASSUME NEW r \in Request,
             \/ IntrospectSchema(r) \/ Unchanged(r) \/ Changed(r) \/ CreateVersion(r)
             \/ Draft(r) \/ Update(r) \/ CreateDraftVersion(r)
             \/ Approve(r) \/ ApproveLayer(r) \/ Abandon(r)
      PROVE  LayersInv' /\ Kept
  <2> DEFINE t0 == task[r]
  <2>0. /\ t0 \in Task /\ db \in Schema /\ clock \in 0 .. MaxClock
        /\ versions \in Seq(Version) /\ layers \in Seq(Layer) /\ MaxClock \in Nat
    BY BoundsAssumption DEF LayersInv, LayersTypeOK, Version, Layer
  <2>1. CASE IntrospectSchema(r)
    <3>1. PICK at \in AgentTime :
            Set(r, [pc |-> "captured", schema |-> db, at |-> at])
      BY <2>1 DEF IntrospectSchema
    <3> DEFINE t == [pc |-> "captured", schema |-> db, at |-> at]
    <3>2. t \in Task /\ t.pc # "store"
      BY <2>0 DEF Task
    <3>3. LayersInv'
      BY <2>0, <2>1, <3>1, <3>2, OnlyTask DEF IntrospectSchema
    <3> QED BY <1>0, <2>1, <3>3 DEF IntrospectSchema
  <2>2. CASE Unchanged(r)
    <3>1. LayersInv'
      BY <2>0, <2>2, OnlyTask, IdleIsTask DEF Unchanged
    <3> QED BY <1>0, <2>2, <3>1 DEF Unchanged
  <2>3. CASE Changed(r)
    <3> DEFINE t == [t0 EXCEPT !.pc = "create"]
    <3>1. t \in Task /\ t.pc # "store"
      BY <2>0, <2>3 DEF Task, Idle, Changed
    <3>2. LayersInv'
      BY <2>0, <2>3, <3>1, OnlyTask DEF Changed
    <3> QED BY <1>0, <2>3, <3>2 DEF Changed
  <2>4. CASE CreateVersion(r)
    BY <1>0, <2>4, CreateVersionStep DEF CreateVersion
  <2>5. CASE Draft(r)
    <3>1. PICK v \in DOMAIN versions, generated \in Content :
            LET content == hydrateSemanticLayerFromSchema(versions[v].schema, generated)
            IN  validateSemanticLayerContent(content) /\ Set(r, Store(v, content))
      BY <2>5 DEF Draft
    <3> DEFINE c == hydrateSemanticLayerFromSchema(versions[v].schema, generated)
               t == Store(v, c)
    <3>2. versions[v].schema \in Schema
      <4>1. versions[v] \in Version
        BY <2>0
      <4> QED BY <4>1 DEF Version
    <3>3. c \in Content /\ DOMAIN c.tables = versions[v].schema /\ DOMAIN c.tables # {}
      BY <3>1, <3>2, Hydrated DEF validateSemanticLayerContent
    <3> HIDE DEF c
    <3>4. t \in Task /\ t.ver = v /\ t.content = c
      BY <3>3 DEF Task, Store
    <3>5. LayersInv'
      BY <2>0, <2>5, <3>1, <3>3, <3>4, OnlyTask DEF Draft, c
    <3> QED BY <1>0, <2>5, <3>5 DEF Draft
  <2>6. CASE Update(r)
    <3>1. PICK i \in DOMAIN layers, edited \in Content :
            LET merged == mergeEditableDescriptions(layers[i].content, edited)
            IN  validateSemanticLayerContent(merged) /\ Set(r, Store(layers[i].ver, merged))
      BY <2>6 DEF Update
    <3> DEFINE c == mergeEditableDescriptions(layers[i].content, edited)
               t == Store(layers[i].ver, c)
    <3>2. layers[i].content \in Content /\ layers[i].ver \in DOMAIN versions
      <4>1. layers[i] \in Layer
        BY <2>0
      <4> QED BY <4>1 DEF Layer
    <3>3. /\ c \in Content /\ DOMAIN c.tables = versions[layers[i].ver].schema
          /\ DOMAIN c.tables # {}
      BY <3>1, <3>2, Merged DEF validateSemanticLayerContent, LayersInv, LayersFitTheirSchema
    <3> HIDE DEF c
    <3>4. t \in Task /\ t.ver = layers[i].ver /\ t.content = c
      BY <3>2, <3>3 DEF Task, Store
    <3>5. LayersInv'
      BY <2>0, <2>6, <3>1, <3>3, <3>4, OnlyTask DEF Update, c
    <3> QED BY <1>0, <2>6, <3>5 DEF Update
  <2>7. CASE CreateDraftVersion(r)
    BY <2>7, CreateDraftStep, CreateDraftKeepsApproved
  <2>8. CASE Approve(r)
    <3>1. PICK i \in DOMAIN layers :
            Set(r, [pc |-> "approve", layer |-> i, at |-> clock + 1])
      BY <2>8 DEF Approve
    <3> DEFINE t == [pc |-> "approve", layer |-> i, at |-> clock + 1]
    <3>2. clock' \in 0 .. MaxClock /\ clock + 1 \in 1 .. MaxClock
      BY <2>0, <2>8 DEF Approve, Tick
    <3>3. t \in Task /\ t.pc # "store"
      BY <3>2 DEF Task
    <3>4. LayersInv'
      BY <2>8, <3>1, <3>2, <3>3, OnlyTask DEF Approve
    <3> QED BY <1>0, <2>8, <3>4 DEF Approve
  <2>9. CASE ApproveLayer(r)
    BY <2>9, ApproveStep
  <2>10. CASE Abandon(r)
    <3>1. LayersInv'
      BY <2>0, <2>10, OnlyTask, IdleIsTask DEF Abandon
    <3> QED BY <1>0, <2>10, <3>1 DEF Abandon
  <2> QED BY <1>3, <2>1, <2>2, <2>3, <2>4, <2>5, <2>6, <2>7, <2>8, <2>9, <2>10
<1> QED BY <1>1, <1>2, <1>3 DEF LayersNext

(* Versions are appended and never changed.                                *)
LEMMA VersionsGrow ==
  ASSUME LayersInv, [LayersNext]_layerVars
  PROVE  /\ versions' \in Seq(Version)
         /\ DOMAIN versions \subseteq DOMAIN versions'
         /\ \A v \in DOMAIN versions : versions'[v] = versions[v]
<1>0. versions \in Seq(Version) /\ task \in [Request -> Task]
  BY DEF LayersInv, LayersTypeOK, Version
<1>1. ASSUME NEW r \in Request, CreateVersion(r)
      PROVE  /\ versions' \in Seq(Version)
             /\ DOMAIN versions \subseteq DOMAIN versions'
             /\ \A v \in DOMAIN versions : versions'[v] = versions[v]
  <2> DEFINE rec == [schema |-> task[r].schema, at |-> task[r].at]
  <2>1. versions' = Append(versions, rec) /\ rec \in Version
    BY <1>0, <1>1, TaskShapes DEF CreateVersion, Version
  <2> HIDE DEF rec
  <2> QED BY <1>0, <2>1
<1>2. (\E r \in Request : CreateVersion(r)) \/ UNCHANGED versions
  BY DEF LayersNext, layerVars, Alter, IntrospectSchema, Unchanged, Changed, Draft,
         Update, CreateDraftVersion, Approve, ApproveLayer, Abandon
<1> QED BY <1>0, <1>1, <1>2

-----------------------------------------------------------------------------
(* Starter questions.                                                      *)

(* A set of naturals that is not empty has a least member.                 *)
LEMMA LeastNatural ==
  ASSUME NEW T, T \subseteq Nat, T # {}
  PROVE  \E n \in T : \A m \in T : n <= m
<1> DEFINE R == OpToRel(<, Nat)
<1>1. IsWellFoundedOn(R, Nat)
  BY NatLessThanWellFounded
<1>2. PICK x \in T : \A y \in T : ~(<<y, x>> \in R)
  <2> HIDE DEF R
  <2> QED BY <1>1, WFMin
<1>3. \A y \in T : ~(y < x)
  BY <1>2 DEF OpToRel
<1> QED BY <1>3

(* Of times below a bound some are the last.                               *)
LEMMA LastTime ==
  ASSUME NEW S, S # {}, NEW bound \in Nat, NEW time \in [S -> 0 .. bound]
  PROVE  \E x \in S : \A y \in S : time[y] <= time[x]
<1> DEFINE T == {bound - time[x] : x \in S}
<1>1. T \subseteq Nat /\ T # {}
  OBVIOUS
<1>2. PICK n \in T : \A m \in T : n <= m
  <2> HIDE DEF T
  <2> QED BY <1>1, LeastNatural
<1>3. PICK x \in S : n = bound - time[x]
  BY DEF T
<1>4. ASSUME NEW y \in S PROVE time[y] <= time[x]
  <2>1. bound - time[y] \in T
    OBVIOUS
  <2>2. n <= bound - time[y]
    BY <1>2, <2>1
  <2> QED BY <1>3, <2>2
<1> QED BY <1>4

(* What a call has in hand.                                                *)
Job ==
  {Idle}
  \cup [pc : {"ask"}, layer : DOMAIN layers, locale : Locale, attempt : {0, 1}]
  \cup [pc : {"begin"}, layer : DOMAIN layers, locale : Locale, tables : SUBSET Table]
  \cup [pc : {"deactivate"}, layer : DOMAIN layers, locale : Locale,
        tables : SUBSET Table, created : 1 .. MaxClock]
  \cup [pc : {"insert"}, layer : DOMAIN layers, locale : Locale, tables : SUBSET Table,
        created : 1 .. MaxClock, prior : SUBSET DOMAIN sets, seen : 0 .. Len(sets)]
  \cup [pc : {"answer"}, locale : Locale, seen : 0 .. Len(sets)]
  \cup [pc : {"answered"}, set : DOMAIN sets, asked : Locale, seen : 0 .. Len(sets)]

QuestionSet == [layer : DOMAIN layers, locale : Locale, tables : SUBSET Table,
                created : 1 .. MaxClock, seen : Nat, active : BOOLEAN]

(* Types of the sets and of the calls.                                     *)
StarterTypeOK == sets \in Seq(QuestionSet) /\ job \in [Asker -> Job]

(* Layers that are approved have been approved at some time.               *)
ApprovedAt == \A i \in DOMAIN layers : layers[i].status = "approved" => layers[i].at > 0

(* Questions in hand are about tables of a layer that somebody approved.   *)
JobFitsLayer ==
  \A a \in Asker :
    /\ job[a].pc \in {"ask", "begin", "deactivate", "insert"} => layers[job[a].layer].at > 0
    /\ job[a].pc \in {"begin", "deactivate", "insert"} =>
         /\ job[a].tables # {}
         /\ job[a].tables \subseteq DOMAIN layers[job[a].layer].content.tables

(* A transaction that has run its UPDATE will retire every set it could    *)
(* see; once it has committed, only sets it could not see are active.      *)
JobReplaces ==
  \A a \in Asker :
    /\ job[a].pc = "insert" => \A s \in Active : s <= job[a].seen => s \in job[a].prior
    /\ job[a].pc = "answer" => \A s \in Active : s > job[a].seen

StarterInv ==
  /\ StarterTypeOK /\ ApprovedAt /\ JobFitsLayer /\ JobReplaces
  /\ SetsReplaceEachOther /\ AnswersAreInLocaleOrNewer /\ QuestionsFitTheSchema

(* What a call has in hand, told apart by pc.                              *)
LEMMA JobShapes ==
  ASSUME NEW j \in Job
  PROVE  /\ j.pc \in {"ask", "begin", "deactivate", "insert"} =>
              j.layer \in DOMAIN layers /\ j.locale \in Locale
         /\ j.pc = "ask" =>
              j = [pc |-> "ask", layer |-> j.layer, locale |-> j.locale,
                   attempt |-> j.attempt]
         /\ j.pc \in {"begin", "deactivate", "insert"} => j.tables \in SUBSET Table
         /\ j.pc \in {"deactivate", "insert"} => j.created \in 1 .. MaxClock
         /\ j.pc = "insert" => j.prior \in SUBSET DOMAIN sets /\ j.seen \in 0 .. Len(sets)
         /\ j.pc = "answer" => j.locale \in Locale /\ j.seen \in 0 .. Len(sets)
         /\ j.pc = "answered" =>
              j.set \in DOMAIN sets /\ j.asked \in Locale /\ j.seen \in 0 .. Len(sets)
BY DEF Job, Idle

(* A layer keeps its version, its tables and the fact that it was once     *)
(* approved; and nothing is approved without a time.                       *)
LEMMA LayersKeep ==
  ASSUME LayersInv, ApprovedAt, [LayersNext]_layerVars
  PROVE  /\ ApprovedAt'
         /\ DOMAIN layers \subseteq DOMAIN layers'
         /\ \A i \in DOMAIN layers : /\ layers'[i].ver = layers[i].ver
                                     /\ layers'[i].content = layers[i].content
                                     /\ layers[i].at > 0 => layers'[i].at > 0
<1> DEFINE Kept == /\ ApprovedAt'
                   /\ DOMAIN layers \subseteq DOMAIN layers'
                   /\ \A i \in DOMAIN layers :
                        /\ layers'[i].ver = layers[i].ver
                        /\ layers'[i].content = layers[i].content
                        /\ layers[i].at > 0 => layers'[i].at > 0
<1>0. LayersTypeOK /\ layers \in Seq(Layer) /\ task \in [Request -> Task]
  BY DEF LayersInv, LayersTypeOK, Layer
<1>1. ASSUME UNCHANGED layers PROVE Kept
  BY <1>1 DEF ApprovedAt
<1>2. ASSUME NEW r \in Request, CreateDraftVersion(r) PROVE Kept
  <2> DEFINE v == task[r].ver
             old == Archive(v, {"draft"}, 0)
             rec == [ver |-> v, status |-> "draft", content |-> task[r].content, at |-> 0]
             n == Len(layers) + 1
  <2>1. /\ old \in Seq(Layer)
        /\ Len(old) = Len(layers)
        /\ \A j \in DOMAIN layers :
             /\ old[j].ver = layers[j].ver
             /\ old[j].content = layers[j].content
             /\ old[j].at = layers[j].at
             /\ old[j].status = IF j # 0 /\ layers[j].ver = v /\ layers[j].status \in {"draft"}
                                THEN "archived" ELSE layers[j].status
    BY <1>0, Archived
  <2>2. layers' = Append(old, rec) /\ rec.status = "draft"
    BY <1>2 DEF CreateDraftVersion
  <2> HIDE DEF old, rec
  <2>3. /\ DOMAIN layers' = DOMAIN layers \cup {n}
        /\ layers'[n] = rec
        /\ \A j \in DOMAIN layers : layers'[j] = old[j]
    BY <1>0, <2>1, <2>2
  <2>4. \A j \in DOMAIN layers : old[j].status = "approved" => layers[j].status = "approved"
    BY <2>1
  <2>5. ApprovedAt'
    BY <2>1, <2>2, <2>3, <2>4 DEF ApprovedAt
  <2> QED BY <2>1, <2>3, <2>5
<1>3. ASSUME NEW r \in Request, ApproveLayer(r) PROVE Kept
  <2> DEFINE i == task[r].layer
             v == layers[i].ver
             peers == Archive(v, {"draft", "approved"}, i)
  <2>1. /\ peers \in Seq(Layer)
        /\ Len(peers) = Len(layers)
        /\ \A j \in DOMAIN layers :
             /\ peers[j] \in Layer
             /\ peers[j].ver = layers[j].ver
             /\ peers[j].content = layers[j].content
             /\ peers[j].at = layers[j].at
             /\ peers[j].status =
                  IF j # i /\ layers[j].ver = v /\ layers[j].status \in {"draft", "approved"}
                  THEN "archived" ELSE layers[j].status
    BY <1>0, Archived
  <2>2. i \in DOMAIN layers /\ task[r].at \in 1 .. MaxClock
    BY <1>0, <1>3, TaskShapes DEF ApproveLayer
  <2>3. layers' = [peers EXCEPT ![i] = [[peers[i] EXCEPT !.status = "approved"]
                                          EXCEPT !.at = task[r].at]]
    BY <1>3 DEF ApproveLayer, updateApproval
  <2> HIDE DEF peers
  <2> DEFINE rec == [[peers[i] EXCEPT !.status = "approved"] EXCEPT !.at = task[r].at]
  <2>4. rec.at > 0 /\ rec.ver = layers[i].ver /\ rec.content = layers[i].content
    <3>1. peers[i] \in Layer /\ peers[i].ver = v /\ peers[i].content = layers[i].content
      BY <2>1, <2>2
    <3> QED BY <2>2, <3>1 DEF Layer
  <2>5. layers' = [peers EXCEPT ![i] = rec]
    BY <2>3
  <2> HIDE DEF rec
  <2>6. /\ DOMAIN layers' = DOMAIN layers /\ layers'[i] = rec
        /\ \A j \in DOMAIN layers : j # i => layers'[j] = peers[j]
    BY <1>0, <2>1, <2>2, <2>5
  <2>7. \A j \in DOMAIN layers : j # i /\ peers[j].status = "approved" =>
          layers[j].status = "approved"
    BY <2>1
  <2>8. ApprovedAt'
    BY <2>1, <2>4, <2>6, <2>7 DEF ApprovedAt
  <2> QED BY <2>1, <2>2, <2>4, <2>6, <2>8
<1>4. \/ UNCHANGED layers
      \/ \E r \in Request : CreateDraftVersion(r) \/ ApproveLayer(r)
  BY DEF LayersNext, layerVars, Alter, IntrospectSchema, Unchanged, Changed, CreateVersion,
         Draft, Update, Approve, Abandon
<1> QED BY <1>1, <1>2, <1>3, <1>4

(* Starter questions stand while layers and versions go on.                *)
LEMMA StarterUnderLayers ==
  ASSUME LayersInv, StarterInv, [LayersNext]_layerVars, UNCHANGED <<sets, job>>
  PROVE  StarterInv'
<1>1. /\ ApprovedAt'
      /\ DOMAIN layers \subseteq DOMAIN layers'
      /\ \A i \in DOMAIN layers : /\ layers'[i].ver = layers[i].ver
                                  /\ layers'[i].content = layers[i].content
                                  /\ layers[i].at > 0 => layers'[i].at > 0
  BY LayersKeep DEF StarterInv
<1>2. /\ sets \in Seq(QuestionSet) /\ job \in [Asker -> Job]
      /\ layers \in Seq(Layer)
  BY DEF StarterInv, StarterTypeOK, LayersInv, LayersTypeOK, Layer
<1>3. /\ \A s \in DOMAIN sets : sets[s].layer \in DOMAIN layers
      /\ \A i \in DOMAIN layers : layers[i].ver \in DOMAIN versions
  <2>1. \A s \in DOMAIN sets : sets[s] \in QuestionSet
    BY <1>2
  <2>2. \A i \in DOMAIN layers : layers[i] \in Layer
    BY <1>2
  <2> QED BY <2>1, <2>2 DEF QuestionSet, Layer
<1>4. StarterTypeOK'
  <2>1. QuestionSet \subseteq QuestionSet'
    BY <1>1 DEF QuestionSet
  <2>2. Job \subseteq Job'
    BY <1>1 DEF Job
  <2> QED BY <1>2, <2>1, <2>2 DEF StarterTypeOK
<1>5. JobFitsLayer'
  BY <1>1, <1>2, JobShapes DEF StarterInv, JobFitsLayer
<1>6. JobReplaces' /\ SetsReplaceEachOther' /\ AnswersAreInLocaleOrNewer'
  BY DEF StarterInv, JobReplaces, SetsReplaceEachOther, AnswersAreInLocaleOrNewer, Active
<1>7. QuestionsFitTheSchema'
  BY <1>1, <1>3, VersionsGrow DEF StarterInv, QuestionsFitTheSchema
<1> QED BY <1>1, <1>4, <1>5, <1>6, <1>7 DEF StarterInv

(* A step that only gives call a something new to have in hand.            *)
LEMMA OnlyJob ==
  ASSUME StarterInv, NEW a \in Asker, NEW j \in Job, Give(a, j),
         UNCHANGED <<versions, layers, sets>>,
         j.pc \in {"ask", "begin", "deactivate", "insert"} => layers[j.layer].at > 0,
         j.pc \in {"begin", "deactivate", "insert"} =>
           j.tables # {} /\ j.tables \subseteq DOMAIN layers[j.layer].content.tables,
         j.pc = "insert" => \A s \in Active : s <= j.seen => s \in j.prior,
         j.pc = "answer" => \A s \in Active : s > j.seen,
         j.pc = "answered" => sets[j.set].locale = j.asked \/ j.set > j.seen
  PROVE  StarterInv'
<1>1. job' \in [Asker -> Job] /\ job'[a] = j /\ \A b \in Asker : b # a => job'[b] = job[b]
  BY DEF StarterInv, StarterTypeOK, Give
<1>2. StarterTypeOK'
  BY <1>1 DEF StarterInv, StarterTypeOK, Job, QuestionSet
<1>3. JobFitsLayer'
  BY <1>1 DEF StarterInv, JobFitsLayer
<1>4. Active' = Active
  BY DEF Active
<1>5. JobReplaces'
  BY <1>1, <1>4 DEF StarterInv, JobReplaces
<1>6. AnswersAreInLocaleOrNewer'
  BY <1>1 DEF StarterInv, AnswersAreInLocaleOrNewer
<1>7. ApprovedAt' /\ SetsReplaceEachOther' /\ QuestionsFitTheSchema'
  BY <1>4 DEF StarterInv, ApprovedAt, SetsReplaceEachOther, QuestionsFitTheSchema
<1> QED BY <1>2, <1>3, <1>5, <1>6, <1>7 DEF StarterInv

(* LatestActive finds an active set, and the approved layer an approved    *)
(* one.                                                                    *)
LEMMA LatestActiveIsActive ==
  ASSUME StarterInv, LatestActive # 0
  PROVE  LatestActive \in Active
<1> DEFINE time == [s \in Active |-> sets[s].created]
<1>1. Active # {}
  BY DEF LatestActive
<1>2. \A s \in Active : sets[s].created \in 0 .. MaxClock
  <2>1. sets \in Seq(QuestionSet)
    BY DEF StarterInv, StarterTypeOK
  <2>2. \A s \in DOMAIN sets : sets[s] \in QuestionSet
    BY <2>1
  <2> QED BY <2>2, BoundsAssumption DEF QuestionSet, Active
<1>3. time \in [Active -> 0 .. MaxClock]
  BY <1>2
<1>4. \E s \in Active : \A t \in Active : time[t] <= time[s]
  <2> HIDE DEF time
  <2> QED BY <1>1, <1>3, LastTime, BoundsAssumption
<1>5. \E s \in Active : \A t \in Active : sets[t].created <= sets[s].created
  BY <1>4
<1> QED BY <1>1, <1>5 DEF LatestActive

LEMMA LatestApprovedIsApproved ==
  ASSUME LayersInv, LatestApprovedByTenant # 0
  PROVE  /\ LatestApprovedByTenant \in DOMAIN layers
         /\ layers[LatestApprovedByTenant].status = "approved"
<1> DEFINE approved == {i \in DOMAIN layers : layers[i].status = "approved"}
           time == [i \in approved |-> layers[i].at]
<1>1. approved # {}
  BY DEF LatestApprovedByTenant
<1>2. \A i \in approved : layers[i].at \in 0 .. MaxClock
  <2>1. layers \in Seq(Layer)
    BY DEF LayersInv, LayersTypeOK, Layer
  <2>2. \A i \in DOMAIN layers : layers[i] \in Layer
    BY <2>1
  <2> QED BY <2>2 DEF Layer
<1>3. time \in [approved -> 0 .. MaxClock]
  BY <1>2
<1>4. \E i \in approved : \A j \in approved : time[j] <= time[i]
  <2> HIDE DEF time, approved
  <2> QED BY <1>1, <1>3, LastTime, BoundsAssumption
<1>5. \E i \in approved : \A j \in approved : layers[j].at <= layers[i].at
  BY <1>4
<1>6. LatestApprovedByTenant \in approved
  BY <1>1, <1>5 DEF LatestApprovedByTenant
<1> QED BY <1>6

(* Five tables, or all of them if there are fewer, are at least one.       *)
LEMMA ValidQuestionsHaveTables ==
  ASSUME NEW tables \in SUBSET Table, NEW content \in Content,
         validateStarterQuestions(tables, content)
  PROVE  tables # {} /\ tables \subseteq DOMAIN content.tables
<1> DEFINE d == DOMAIN content.tables
<1>1. d # {} /\ tables \subseteq d /\ Cardinality(tables) >= Least(5, Cardinality(d))
  BY DEF validateStarterQuestions
<1>2. d \subseteq Table
  BY ContentHasText DEF Schema
<1>3. IsFiniteSet(d)
  BY <1>2, FS_Subset, StarterAssumption
<1>4. Cardinality(d) \in Nat /\ Cardinality(d) # 0
  BY <1>1, <1>3, FS_CardinalityType, FS_EmptySet
<1>5. CASE tables = {}
  <2>1. Cardinality(tables) = 0
    BY <1>5, FS_EmptySet
  <2> QED BY <1>1, <1>4, <2>1 DEF Least
<1> QED BY <1>1, <1>5

(* insertSet commits a set and retires the prior ones.                     *)
LEMMA InsertSetStep ==
  ASSUME LayersInv, StarterInv, NEW a \in Asker, insertSet(a)
  PROVE  StarterInv'
<1> DEFINE j == job[a]
           n == Len(sets) + 1
           rec == [layer |-> j.layer, locale |-> j.locale, tables |-> j.tables,
                   created |-> j.created, seen |-> j.seen, active |-> TRUE]
           rest == [s \in DOMAIN sets |-> [sets[s] EXCEPT !.active = @ /\ s \notin j.prior]]
           next == [pc |-> "answer", locale |-> j.locale, seen |-> j.seen]
<1>1. /\ sets \in Seq(QuestionSet) /\ job \in [Asker -> Job] /\ j \in Job
      /\ j.pc = "insert"
  BY DEF StarterInv, StarterTypeOK, insertSet
<1>2. /\ j.layer \in DOMAIN layers /\ j.locale \in Locale /\ j.tables \in SUBSET Table
      /\ j.created \in 1 .. MaxClock
      /\ j.prior \in SUBSET DOMAIN sets /\ j.seen \in 0 .. Len(sets)
  BY <1>1, JobShapes
<1>3. sets' = Append(rest, rec) /\ Give(a, next) /\ UNCHANGED <<versions, layers>>
  BY DEF insertSet, layerVars
<1>4. ASSUME NEW s \in DOMAIN sets
      PROVE  /\ rest[s] \in QuestionSet
             /\ rest[s].layer = sets[s].layer /\ rest[s].locale = sets[s].locale
             /\ rest[s].tables = sets[s].tables /\ rest[s].seen = sets[s].seen
             /\ rest[s].active = (sets[s].active /\ s \notin j.prior)
  <2>1. sets[s] \in QuestionSet
    BY <1>1
  <2>2. rest[s] = [sets[s] EXCEPT !.active = @ /\ s \notin j.prior]
    OBVIOUS
  <2> QED BY <2>1, <2>2 DEF QuestionSet
<1>5. rest \in Seq(QuestionSet) /\ Len(rest) = Len(sets)
  <2>1. rest \in [1 .. Len(sets) -> QuestionSet]
    <3>1. DOMAIN rest = 1 .. Len(sets) /\ DOMAIN sets = 1 .. Len(sets)
      BY <1>1
    <3> QED BY <1>4, <3>1
  <2> HIDE DEF rest
  <2> QED BY <1>1, <2>1
<1>6. rec \in QuestionSet /\ rec.active /\ rec.layer = j.layer /\ rec.tables = j.tables
      /\ rec.seen = j.seen
  BY <1>2 DEF QuestionSet
<1> HIDE DEF rest, rec
<1>7. /\ sets' \in Seq(QuestionSet) /\ Len(sets') = n
      /\ DOMAIN sets' = DOMAIN sets \cup {n} /\ n \notin DOMAIN sets
      /\ \A s \in DOMAIN sets : s < n
      /\ sets'[n] = rec
      /\ \A s \in DOMAIN sets : sets'[s] = rest[s]
  BY <1>1, <1>3, <1>5, <1>6
<1>8. /\ Active' = (Active \ j.prior) \cup {n}
      /\ \A s \in Active : s > j.seen \/ s \in j.prior
  <2>1. \A s \in Active : s <= j.seen => s \in j.prior
    BY <1>1 DEF StarterInv, JobReplaces
  <2>2. \A s \in Active : s \in Nat
    BY <1>1 DEF Active
  <2>3. \A s \in Active : s > j.seen \/ s \in j.prior
    BY <1>1, <1>2, <2>1, <2>2
  <2>4. n \in Active'
    BY <1>6, <1>7 DEF Active
  <2>5. \A s \in DOMAIN sets : s \in Active' <=> s \in Active /\ s \notin j.prior
    BY <1>4, <1>7 DEF Active
  <2>6. Active' \subseteq DOMAIN sets \cup {n} /\ Active \subseteq DOMAIN sets
    BY <1>7 DEF Active
  <2> QED BY <1>7, <2>3, <2>4, <2>5, <2>6
<1>9. /\ job'[a] = next /\ \A b \in Asker : b # a => job'[b] = job[b]
      /\ DOMAIN job' = Asker /\ job' = [job EXCEPT ![a] = next]
  BY <1>1, <1>3 DEF Give
<1>10. StarterTypeOK'
  <2>1. Job \subseteq Job' /\ QuestionSet' = QuestionSet
    BY <1>1, <1>3, <1>7 DEF Job, QuestionSet
  <2>2. next \in Job'
    BY <1>1, <1>2, <1>7 DEF Job
  <2> QED BY <1>1, <1>7, <1>9, <2>1, <2>2 DEF StarterTypeOK
<1>11. ApprovedAt' /\ JobFitsLayer'
  BY <1>3, <1>9 DEF StarterInv, ApprovedAt, JobFitsLayer
<1>12. JobReplaces'
  <2>1. \A b \in Asker : job[b].pc \in {"insert", "answer"} => job[b].seen \in 0 .. Len(sets)
    BY <1>1, JobShapes
  <2>2. ASSUME NEW b \in Asker, b # a
        PROVE  /\ job'[b].pc = "insert" =>
                    \A s \in Active' : s <= job'[b].seen => s \in job'[b].prior
               /\ job'[b].pc = "answer" => \A s \in Active' : s > job'[b].seen
    <3>1. job'[b] = job[b]
      BY <1>9, <2>2
    <3>2. job[b].pc \in {"insert", "answer"} => n > job[b].seen
      BY <1>1, <2>1
    <3> QED BY <1>1, <1>8, <2>1, <3>1, <3>2 DEF StarterInv, JobReplaces
  <2>3. \A s \in Active' : s > j.seen
    BY <1>1, <1>2, <1>8
  <2>4. job'[a].pc = "answer" /\ job'[a].seen = j.seen
    BY <1>9
  <2> QED BY <2>2, <2>3, <2>4 DEF JobReplaces
<1>13. SetsReplaceEachOther'
  <2>1. Active' # {}
    BY <1>8
  <2>2. ASSUME NEW s \in Active', NEW t \in Active', s < t PROVE s > sets'[t].seen
    <3>1. s \in DOMAIN sets' /\ t \in DOMAIN sets'
      BY DEF Active
    <3>2. s # n
      BY <1>1, <1>7, <2>2, <3>1
    <3>3. s \in Active /\ s \notin j.prior
      BY <1>8, <3>2
    <3>4. CASE t = n
      BY <1>6, <1>7, <1>8, <3>3, <3>4
    <3>5. CASE t # n
      <4>1. t \in Active /\ t \in DOMAIN sets /\ sets'[t].seen = sets[t].seen
        BY <1>4, <1>7, <1>8, <3>1, <3>5
      <4> QED BY <2>2, <3>3, <4>1 DEF StarterInv, SetsReplaceEachOther
    <3> QED BY <3>4, <3>5
  <2> QED BY <2>1, <2>2 DEF SetsReplaceEachOther
<1>14. AnswersAreInLocaleOrNewer'
  <2> SUFFICES ASSUME NEW b \in Asker, job'[b].pc = "answered"
               PROVE  sets'[job'[b].set].locale = job'[b].asked \/ job'[b].set > job'[b].seen
    BY DEF AnswersAreInLocaleOrNewer
  <2>1. job'[b] = job[b]
    BY <1>9
  <2>2. job[b].set \in DOMAIN sets
    BY <1>1, <2>1, JobShapes
  <2>3. sets'[job[b].set].locale = sets[job[b].set].locale
    BY <1>4, <1>7, <2>2
  <2> QED BY <2>1, <2>3 DEF StarterInv, AnswersAreInLocaleOrNewer
<1>15. QuestionsFitTheSchema'
  <2> SUFFICES ASSUME NEW s \in DOMAIN sets'
               PROVE  /\ layers[sets'[s].layer].at > 0
                      /\ sets'[s].tables # {}
                      /\ sets'[s].tables \subseteq versions[layers[sets'[s].layer].ver].schema
    BY <1>3 DEF QuestionsFitTheSchema
  <2>1. CASE s = n
    <3>1. layers[j.layer].at > 0 /\ j.tables # {}
          /\ j.tables \subseteq DOMAIN layers[j.layer].content.tables
      BY <1>1 DEF StarterInv, JobFitsLayer
    <3>2. DOMAIN layers[j.layer].content.tables = versions[layers[j.layer].ver].schema
      BY <1>2 DEF LayersInv, LayersFitTheirSchema
    <3> QED BY <1>6, <1>7, <2>1, <3>1, <3>2
  <2>2. CASE s \in DOMAIN sets
    <3>1. sets'[s].layer = sets[s].layer /\ sets'[s].tables = sets[s].tables
      BY <1>4, <1>7, <2>2
    <3> QED BY <2>2, <3>1 DEF StarterInv, QuestionsFitTheSchema
  <2> QED BY <1>7, <2>1, <2>2
<1> QED BY <1>10, <1>11, <1>12, <1>13, <1>14, <1>15 DEF StarterInv

(* Every step of a call keeps the invariant.                               *)
LEMMA StarterStep ==
  ASSUME LayersInv, StarterInv, StarterNext
  PROVE  StarterInv'
<1>1. PICK a \in Asker :
        \/ List(a) \/ generate(a) \/ LLMAnswers(a) \/ Begin(a)
        \/ deactivatePriorSets(a) \/ insertSet(a) \/ answer(a) \/ Fail(a)
  BY DEF StarterNext
<1>2. /\ sets \in Seq(QuestionSet) /\ layers \in Seq(Layer)
      /\ job[a] \in Job /\ clock \in 0 .. MaxClock /\ MaxClock \in Nat
  BY BoundsAssumption DEF StarterInv, StarterTypeOK, LayersInv, LayersTypeOK, Layer
<1>3. CASE List(a)
  <2>1. PICK locale \in Locale :
          cached(locale) /\ Give(a, Answered(LatestActive, locale, Len(sets)))
    BY <1>3 DEF List
  <2> DEFINE j == Answered(LatestActive, locale, Len(sets))
  <2>2. LatestActive \in Active /\ sets[LatestActive].locale = locale
    BY <2>1, LatestActiveIsActive DEF cached
  <2>3. j \in Job /\ j.pc = "answered" /\ sets[j.set].locale = j.asked
    BY <1>2, <2>2 DEF Answered, Job, Active
  <2> HIDE DEF j
  <2>4. Give(a, j) /\ UNCHANGED <<versions, layers, sets>>
    BY <1>3, <2>1 DEF List, layerVars, j
  <2> QED BY <2>3, <2>4, OnlyJob
<1>4. CASE generate(a)
  <2> DEFINE i == LatestApprovedByTenant
  <2>1. PICK locale \in Locale :
          Give(a, [pc |-> "ask", layer |-> i, locale |-> locale, attempt |-> 0])
    BY <1>4 DEF generate
  <2> DEFINE j == [pc |-> "ask", layer |-> i, locale |-> locale, attempt |-> 0]
  <2>2. i \in DOMAIN layers /\ layers[i].at > 0
    BY <1>4, LatestApprovedIsApproved DEF generate, StarterInv, ApprovedAt
  <2> HIDE DEF i
  <2>3. j \in Job /\ j.pc = "ask" /\ layers[j.layer].at > 0
    BY <2>2 DEF Job
  <2> HIDE DEF j
  <2>4. Give(a, j) /\ UNCHANGED <<versions, layers, sets>>
    BY <1>4, <2>1 DEF generate, layerVars, j
  <2> QED BY <2>3, <2>4, OnlyJob
<1>5. CASE LLMAnswers(a)
  <2> DEFINE content == layers[job[a].layer].content
  <2>1. PICK tables \in SUBSET Table :
          IF validateStarterQuestions(tables, content)
          THEN Give(a, [pc |-> "begin", layer |-> job[a].layer,
                        locale |-> job[a].locale, tables |-> tables])
          ELSE job[a].attempt = 0 /\ Give(a, [job[a] EXCEPT !.attempt = 1])
    BY <1>5 DEF LLMAnswers
  <2>2. /\ job[a].pc = "ask" /\ job[a].layer \in DOMAIN layers /\ job[a].locale \in Locale
        /\ job[a] = [pc |-> "ask", layer |-> job[a].layer, locale |-> job[a].locale,
                     attempt |-> job[a].attempt]
        /\ layers[job[a].layer].at > 0
    BY <1>2, <1>5, JobShapes DEF LLMAnswers, StarterInv, JobFitsLayer
  <2>3. UNCHANGED <<versions, layers, sets>>
    BY <1>5 DEF LLMAnswers, layerVars
  <2>4. CASE validateStarterQuestions(tables, content)
    <3> DEFINE j == [pc |-> "begin", layer |-> job[a].layer,
                     locale |-> job[a].locale, tables |-> tables]
    <3>1. content \in Content
      <4>1. layers[job[a].layer] \in Layer
        BY <1>2, <2>2
      <4> QED BY <4>1 DEF Layer
    <3>2. tables # {} /\ tables \subseteq DOMAIN content.tables
      BY <2>4, <3>1, ValidQuestionsHaveTables
    <3>3. /\ j \in Job /\ j.pc = "begin" /\ layers[j.layer].at > 0
          /\ j.tables # {} /\ j.tables \subseteq DOMAIN layers[j.layer].content.tables
      BY <2>2, <3>2 DEF Job
    <3> HIDE DEF j
    <3>4. Give(a, j)
      BY <2>1, <2>4 DEF j
    <3> QED BY <2>3, <3>3, <3>4, OnlyJob
  <2>5. CASE ~validateStarterQuestions(tables, content)
    <3> DEFINE j == [pc |-> "ask", layer |-> job[a].layer,
                     locale |-> job[a].locale, attempt |-> 1]
    <3>1. [job[a] EXCEPT !.attempt = 1] = j
      BY <2>2
    <3>2. j \in Job /\ j.pc = "ask" /\ layers[j.layer].at > 0
      BY <2>2 DEF Job
    <3> HIDE DEF j
    <3>3. Give(a, j)
      BY <2>1, <2>5, <3>1
    <3> QED BY <2>3, <3>2, <3>3, OnlyJob
  <2> QED BY <2>4, <2>5
<1>6. CASE Begin(a)
  <2> DEFINE j == [pc |-> "deactivate", layer |-> job[a].layer, locale |-> job[a].locale,
                   tables |-> job[a].tables, created |-> clock + 1]
  <2>1. /\ job[a].pc = "begin" /\ job[a].layer \in DOMAIN layers
        /\ job[a].locale \in Locale /\ job[a].tables \in SUBSET Table
        /\ layers[job[a].layer].at > 0 /\ job[a].tables # {}
        /\ job[a].tables \subseteq DOMAIN layers[job[a].layer].content.tables
    BY <1>2, <1>6, JobShapes DEF Begin, StarterInv, JobFitsLayer
  <2>2. clock + 1 \in 1 .. MaxClock
    BY <1>2, <1>6 DEF Begin, Tick
  <2>3. /\ j \in Job /\ j.pc = "deactivate" /\ layers[j.layer].at > 0
        /\ j.tables # {} /\ j.tables \subseteq DOMAIN layers[j.layer].content.tables
    BY <2>1, <2>2 DEF Job
  <2> HIDE DEF j
  <2>4. Give(a, j) /\ UNCHANGED <<versions, layers, sets>>
    BY <1>6 DEF Begin, j
  <2> QED BY <2>3, <2>4, OnlyJob
<1>7. CASE deactivatePriorSets(a)
  <2> DEFINE j == [pc |-> "insert", layer |-> job[a].layer, locale |-> job[a].locale,
                   tables |-> job[a].tables, created |-> job[a].created,
                   prior |-> Active, seen |-> Len(sets)]
  <2>1. /\ job[a].pc = "deactivate" /\ job[a].layer \in DOMAIN layers
        /\ job[a].locale \in Locale /\ job[a].tables \in SUBSET Table
        /\ job[a].created \in 1 .. MaxClock
        /\ layers[job[a].layer].at > 0 /\ job[a].tables # {}
        /\ job[a].tables \subseteq DOMAIN layers[job[a].layer].content.tables
    BY <1>2, <1>7, JobShapes DEF deactivatePriorSets, StarterInv, JobFitsLayer
  <2>2. Active \subseteq DOMAIN sets /\ Len(sets) \in 0 .. Len(sets)
    BY <1>2 DEF Active
  <2>3. /\ j \in Job /\ j.pc = "insert" /\ layers[j.layer].at > 0
        /\ j.tables # {} /\ j.tables \subseteq DOMAIN layers[j.layer].content.tables
        /\ j.prior = Active
    BY <2>1, <2>2 DEF Job
  <2> HIDE DEF j
  <2>4. Give(a, j) /\ UNCHANGED <<versions, layers, sets>>
    BY <1>7 DEF deactivatePriorSets, layerVars, j
  <2> QED BY <2>3, <2>4, OnlyJob
<1>8. CASE insertSet(a)
  BY <1>8, InsertSetStep
<1>9. CASE answer(a)
  <2> DEFINE j == Answered(LatestActive, job[a].locale, job[a].seen)
  <2>1. /\ job[a].pc = "answer" /\ job[a].locale \in Locale
        /\ job[a].seen \in 0 .. Len(sets)
        /\ \A s \in Active : s > job[a].seen
    BY <1>2, <1>9, JobShapes DEF answer, StarterInv, JobReplaces
  <2>2. LatestActive \in Active
    BY <1>9, LatestActiveIsActive DEF answer
  <2>3. j \in Job /\ j.pc = "answered" /\ j.set > j.seen
    BY <2>1, <2>2 DEF Answered, Job, Active
  <2> HIDE DEF j
  <2>4. Give(a, j) /\ UNCHANGED <<versions, layers, sets>>
    BY <1>9 DEF answer, layerVars, j
  <2> QED BY <2>3, <2>4, OnlyJob
<1>10. CASE Fail(a)
  <2>1. Idle \in Job /\ Idle.pc = "idle"
    BY DEF Job, Idle
  <2>2. Give(a, Idle) /\ UNCHANGED <<versions, layers, sets>>
    BY <1>10 DEF Fail, layerVars
  <2> QED BY <2>1, <2>2, OnlyJob
<1> QED BY <1>1, <1>3, <1>4, <1>5, <1>6, <1>7, <1>8, <1>9, <1>10

(* Calls change nothing of the layers but the time.                        *)
LEMMA LayersUnderStarter ==
  ASSUME LayersInv, StarterNext
  PROVE  LayersInv'
<1>1. /\ UNCHANGED <<db, versions, layers, task>>
      /\ clock' = clock \/ (clock < MaxClock /\ clock' = clock + 1)
  BY DEF StarterNext, List, generate, LLMAnswers, Begin, deactivatePriorSets, insertSet,
         answer, Fail, layerVars, Tick
<1>2. clock' \in 0 .. MaxClock
  BY <1>1, BoundsAssumption DEF LayersInv, LayersTypeOK
<1> QED BY <1>1, <1>2 DEF LayersInv, LayersTypeOK, OneDraftOneApproved,
                          LayersFitTheirSchema, StoreInv, With, Task

(* The inductive invariant of layers and starter questions together.       *)
THEOREM StarterInvariance == Spec => [](LayersInv /\ StarterInv)
<1>1. ASSUME StarterInit PROVE LayersInv /\ StarterInv
  <2> USE <1>1 DEF StarterInit, Init
  <2>1. LayersInv
    <3>1. task \in [Request -> Task]
      BY IdleIsTask
    <3>2. LayersTypeOK
      BY <3>1, BoundsAssumption DEF LayersTypeOK
    <3>3. OneDraftOneApproved /\ LayersFitTheirSchema
      BY DEF OneDraftOneApproved, LayersFitTheirSchema
    <3>4. StoreInv
      BY IdleIsTask DEF StoreInv
    <3> QED BY <3>2, <3>3, <3>4 DEF LayersInv
  <2>2. StarterTypeOK
    BY DEF StarterTypeOK, Job
  <2>3. ApprovedAt /\ SetsReplaceEachOther /\ QuestionsFitTheSchema
    BY DEF ApprovedAt, SetsReplaceEachOther, QuestionsFitTheSchema, Active
  <2>4. JobFitsLayer /\ JobReplaces /\ AnswersAreInLocaleOrNewer
    BY DEF JobFitsLayer, JobReplaces, AnswersAreInLocaleOrNewer, Idle
  <2> QED BY <2>1, <2>2, <2>3, <2>4 DEF StarterInv
<1>2. ASSUME LayersInv, StarterInv, [Next]_vars PROVE LayersInv' /\ StarterInv'
  <2>1. CASE StarterNext
    BY <1>2, <2>1, StarterStep, LayersUnderStarter
  <2>2. CASE [LayersNext]_layerVars /\ UNCHANGED <<sets, job>>
    BY <1>2, <2>2, LayersStep, StarterUnderLayers
  <2> QED BY <1>2, <2>1, <2>2 DEF Next, vars
<1> QED BY <1>1, <1>2, PTL DEF Spec

(* Types of versions, layers and requests.                                 *)
THEOREM LayersTypeCorrect == Spec => []LayersTypeOK
<1>1. LayersInv => LayersTypeOK
  BY DEF LayersInv
<1> QED BY <1>1, StarterInvariance, PTL

(* The transactions of semantic_layer.go never break the unique indexes.   *)
THEOREM IndexesHold == Spec => []OneDraftOneApproved
<1>1. LayersInv => OneDraftOneApproved
  BY DEF LayersInv
<1> QED BY <1>1, StarterInvariance, PTL

(* Whatever tables the LLM and editors describe, a layer describes those   *)
(* of its version.                                                         *)
THEOREM DescriptionsFit == Spec => []LayersFitTheirSchema
<1>1. LayersInv => LayersFitTheirSchema
  BY DEF LayersInv
<1> QED BY <1>1, StarterInvariance, PTL

(* An approved version stays approved under any overlap of drafts, edits   *)
(* and approvals.                                                          *)
THEOREM ApprovedStays == Spec => ApprovedNeverVanishes
<1> DEFINE Kept == \A v \in DOMAIN versions :
                     With(v, "approved") # {} => With(v, "approved")' # {}
<1>1. ASSUME LayersInv, [Next]_vars PROVE Kept
  <2>1. CASE StarterNext
    <3>1. UNCHANGED layers
      BY <2>1 DEF StarterNext, List, generate, LLMAnswers, Begin, deactivatePriorSets,
                  insertSet, answer, Fail, layerVars
    <3> QED BY <3>1 DEF With
  <2>2. CASE [LayersNext]_layerVars
    BY <1>1, <2>2, LayersStep
  <2> QED BY <1>1, <2>1, <2>2 DEF Next, vars
<1>2. LayersInv /\ [Next]_vars => [Kept]_layerVars
  BY <1>1
<1> HIDE DEF Kept
<1>3. Spec => [][Kept]_layerVars
  BY <1>2, StarterInvariance, PTL DEF Spec
<1> QED BY <1>3 DEF Kept, ApprovedNeverVanishes

(* Racing replacements never retire every set, and leave two active only   *)
(* when neither could see the other.                                       *)
THEOREM SetsReplaced == Spec => []SetsReplaceEachOther
<1>1. StarterInv => SetsReplaceEachOther
  BY DEF StarterInv
<1> QED BY <1>1, StarterInvariance, PTL

(* A caller gets the language asked for, or a set committed later.         *)
THEOREM AnswersInLocale == Spec => []AnswersAreInLocaleOrNewer
<1>1. StarterInv => AnswersAreInLocaleOrNewer
  BY DEF StarterInv
<1> QED BY <1>1, StarterInvariance, PTL

(* Questions are about tables of the schema version behind an approved     *)
(* layer.                                                                  *)
THEOREM QuestionsFit == Spec => []QuestionsFitTheSchema
<1>1. StarterInv => QuestionsFitTheSchema
  BY DEF StarterInv
<1> QED BY <1>1, StarterInvariance, PTL
=============================================================================
