-------------------------- MODULE OnboardingProofs --------------------------
(***************************************************************************)
(* The onboarding row is coherent however many handlers overlap, and a     *)
(* locked step is only ever undone by a handler that read the row before.  *)
(***************************************************************************)
EXTENDS Onboarding, TLAPS

(* A row or a copy of it in good order.                                    *)
Sound(copy) == copy \in Row /\ Coherent(copy) /\ Discreet(copy)

(* The fresh row a workspace starts from is in good order.                 *)
LEMMA NewRowIsSound == Sound(NewRow)
BY OnboardingAssumption
DEF Sound, NewRow, Row, Coherent, Discreet, Welcome, Schema, Semantic, Starter, Done

(* Whatever a handler assigns, a copy stays a row.                         *)
LEMMA RowUpdates ==
  ASSUME NEW copy \in Row, NEW s \in Welcome .. Done, NEW t \in Token \cup {None},
         NEW b \in BOOLEAN
  PROVE  /\ [copy EXCEPT !.session = t] \in Row
         /\ [copy EXCEPT !.token = t, !.session = t, !.plain = b, !.step = s] \in Row
         /\ [copy EXCEPT !.token = t, !.plain = b] \in Row
         /\ [copy EXCEPT !.step = s, !.db = b] \in Row
         /\ [copy EXCEPT !.step = s, !.schema = b] \in Row
         /\ [copy EXCEPT !.step = s, !.layer = b] \in Row
         /\ [copy EXCEPT !.step = s, !.completed = b] \in Row
<1>1. [copy EXCEPT !.session = t] \in Row
  BY DEF Row
<1>2. [copy EXCEPT !.token = t, !.session = t, !.plain = b, !.step = s] \in Row
  BY DEF Row
<1>3. [copy EXCEPT !.token = t, !.plain = b] \in Row
  BY DEF Row
<1>4. [copy EXCEPT !.step = s, !.db = b] \in Row
  BY DEF Row
<1>5. [copy EXCEPT !.step = s, !.schema = b] \in Row
  BY DEF Row
<1>6. [copy EXCEPT !.step = s, !.layer = b] \in Row
  BY DEF Row
<1>7. [copy EXCEPT !.step = s, !.completed = b] \in Row
  BY DEF Row
<1> QED BY <1>1, <1>2, <1>3, <1>4, <1>5, <1>6, <1>7

(* What refreshAgentConnection does to a copy: it stays in good order, and *)
(* its step only goes up, never to a locked one.                           *)
LEMMA RefreshedIsSound ==
  ASSUME TypeOK, NEW copy, Sound(copy)
  PROVE  /\ Sound(Refreshed(copy))
         /\ Refreshed(copy).step >= copy.step
         /\ copy.step < Starter => Refreshed(copy).step < Starter
<1> DEFINE t == latestOnlineAgentSession(copy.token)
<1>1. t \in Token \cup {None}
  BY DEF latestOnlineAgentSession, TypeOK, Sound, Row
<1>2. CASE t = None
  BY <1>2 DEF Refreshed, Sound, Row, Coherent, Discreet,
              Welcome, Schema, Semantic, Starter, Done
<1>3. CASE t # None
  <2> DEFINE s == IF copy.step < Database THEN Database ELSE copy.step
             new == [copy EXCEPT !.token = t, !.session = t, !.plain = FALSE, !.step = s]
  <2> USE DEF Welcome, Database, Schema, Semantic, Starter, Done
  <2>1. Refreshed(copy) = new
    BY <1>3 DEF Refreshed
  <2>2. copy \in Row /\ copy.step \in Welcome .. Done /\ s \in Welcome .. Done
    BY DEF Sound, Row
  <2>3. new \in Row
    BY <1>1, <2>2, RowUpdates
  <2>4. /\ new.step = s /\ new.token = t /\ new.session = t /\ new.plain = FALSE
        /\ new.db = copy.db /\ new.schema = copy.schema /\ new.layer = copy.layer
        /\ new.completed = copy.completed
    BY <2>2 DEF Row
  <2> HIDE DEF new, t
  <2>5. Coherent(new)
    BY <2>2, <2>4 DEF Coherent, Sound
  <2>6. Discreet(new)
    BY <2>4 DEF Discreet
  <2>7. s >= copy.step /\ (copy.step < Starter => s < Starter)
    BY <2>2
  <2> QED BY <2>1, <2>3, <2>4, <2>5, <2>6, <2>7 DEF Sound
<1> QED BY <1>2, <1>3

(* Reading the row into a sound copy disturbs nothing.                     *)
LEMMA LoadPreserves ==
  ASSUME OnboardingInv, NEW r \in Request, NEW copy, NEW label \in Label \ {"idle"},
         NEW after \in After, Load(r, copy, label, after), Sound(copy),
         label = "capture" => copy.step >= Schema,
         label \in {"configure", "capture", "issue"} => copy.step < Starter,
         after # "return" => copy.step < Starter /\ row.step < Starter,
         row.step >= Starter => copy.step >= Starter
  PROVE  OnboardingInv'
<1> USE DEF OnboardingInv, Load, world
<1>1. TypeOK'
  BY DEF TypeOK, Sound
<1>2. RowIsCoherent' /\ PlaintextIsForgotten'
  BY DEF RowIsCoherent, PlaintextIsForgotten, Coherent, Discreet
<1>3. ASSUME NEW q \in Request PROVE HandlerInv(q)'
  <2>1. CASE q = r
    <3>1. pc'[r] = label /\ rec'[r] = copy /\ then'[r] = after /\ approved' = approved
      BY DEF TypeOK
    <3>2. copy.step >= Starter \/ r \notin behind'
      BY DEF HandlerInv, TypeOK
    <3>3. after # "return" => r \notin behind'
      <4>1. row.step \in Nat
        BY DEF TypeOK, Row, Welcome, Done
      <4> QED BY <4>1 DEF HandlerInv, TypeOK, Starter
    <3> QED BY <2>1, <3>1, <3>2, <3>3 DEF HandlerInv, Sound, Coherent, Discreet
  <2>2. CASE q # r
    BY <2>2 DEF TypeOK, HandlerInv, Coherent, Discreet
  <2> QED BY <2>1, <2>2
<1> QED BY <1>1, <1>2, <1>3

(* So does returning.                                                      *)
LEMMA ReturnPreserves ==
  ASSUME OnboardingInv, NEW r \in Request, Return(r), Sound(row)', UNCHANGED world
  PROVE  OnboardingInv'
<1> USE DEF OnboardingInv, Return, Goto, world
<1>1. TypeOK'
  BY NewRowIsSound DEF TypeOK, Sound, Label, After
<1>2. RowIsCoherent' /\ PlaintextIsForgotten'
  BY DEF RowIsCoherent, PlaintextIsForgotten, Sound
<1>3. ASSUME NEW q \in Request PROVE HandlerInv(q)'
  <2>1. CASE q = r
    BY <2>1, NewRowIsSound DEF TypeOK, HandlerInv, Sound, Coherent, Discreet
  <2>2. CASE q # r
    BY <2>2 DEF TypeOK, HandlerInv, Coherent, Discreet
  <2> QED BY <2>1, <2>2
<1> QED BY <1>1, <1>2, <1>3

(* And going on to what follows the write.                                 *)
LEMMA ProceedPreserves ==
  ASSUME OnboardingInv, NEW r \in Request, Proceed(r), Sound(row)',
         UNCHANGED world, then[r] = "issue" => rec[r].step < Starter
  PROVE  OnboardingInv'
<1>1. CASE then[r] = "return"
  BY <1>1, ReturnPreserves DEF Proceed
<1>2. CASE then[r] # "return"
  <2> USE <1>2 DEF OnboardingInv, Proceed, Goto, world
  <2>1. TypeOK'
    BY DEF TypeOK, Sound, Label, After
  <2>2. RowIsCoherent' /\ PlaintextIsForgotten'
    BY DEF RowIsCoherent, PlaintextIsForgotten, Sound
  <2>3. ASSUME NEW q \in Request PROVE HandlerInv(q)'
    BY DEF TypeOK, After, HandlerInv, Coherent, Discreet
  <2> QED BY <2>1, <2>2, <2>3
<1> QED BY <1>1, <1>2

(* And a handler working on its own copy.                                  *)
LEMMA WorkPreserves ==
  ASSUME OnboardingInv, NEW r \in Request, NEW copy, NEW label \in Label \ {"idle"},
         NEW after \in After,
         pc' = [pc EXCEPT ![r] = label],
         rec' = [rec EXCEPT ![r] = copy],
         then' = [then EXCEPT ![r] = after],
         issued' \subseteq Token,
         UNCHANGED <<row, behind, online, latest, approved>>,
         Sound(copy),
         label \notin {"configure", "capture", "issue"},
         after # "return" => r \notin behind /\ copy.step < Starter,
         r \in behind => copy.step >= Starter
  PROVE  OnboardingInv'
<1> USE DEF OnboardingInv
<1>1. TypeOK'
  BY DEF TypeOK, Sound
<1>2. RowIsCoherent' /\ PlaintextIsForgotten'
  BY DEF RowIsCoherent, PlaintextIsForgotten, Coherent, Discreet
<1>3. ASSUME NEW q \in Request PROVE HandlerInv(q)'
  <2>1. CASE q = r
    BY <2>1 DEF TypeOK, HandlerInv, Sound, Coherent, Discreet
  <2>2. CASE q # r
    BY <2>2 DEF TypeOK, HandlerInv, Coherent, Discreet
  <2> QED BY <2>1, <2>2
<1> QED BY <1>1, <1>2, <1>3

-----------------------------------------------------------------------------
(* The inductive invariant holds at first ...                              *)
LEMMA InitInv == Init => OnboardingInv
BY NewRowIsSound
DEF Init, OnboardingInv, TypeOK, RowIsCoherent, PlaintextIsForgotten, HandlerInv,
    Sound, Label, After

(* ... and is preserved by every step of every handler and of the world.   *)
LEMMA NextInv == OnboardingInv /\ [Next]_vars => OnboardingInv'
<1> SUFFICES ASSUME OnboardingInv, [Next]_vars PROVE OnboardingInv'
  OBVIOUS
<1> Sound(row)
  BY DEF OnboardingInv, TypeOK, RowIsCoherent, PlaintextIsForgotten, Sound
<1> \A r \in Request : Sound(rec[r])
  BY DEF OnboardingInv, TypeOK, HandlerInv, Sound
<1> USE DEF Welcome, AgentInstall, Database, Schema, Semantic, Starter, Done
<1>1. ASSUME NEW r \in Request, GetState(r) \/ GetAgentConnectionStatus(r)
      PROVE  OnboardingInv'
  <2>1. Load(r, row, "refresh", "return")
    BY <1>1 DEF GetState, GetAgentConnectionStatus
  <2> QED BY <2>1, LoadPreserves DEF Label, After
<1>2. ASSUME NEW r \in Request, SaveWelcome(r) PROVE OnboardingInv'
  <2> DEFINE back == [row EXCEPT !.step = AgentInstall]
  <2>1. row.step < Starter /\ row.step \in Nat
    BY <1>2 DEF SaveWelcome, Sound, Row
  <2>2. back.step < Starter /\ Sound(back)
    BY <2>1 DEF Sound, Row, Coherent, Discreet
  <2>3. CASE Load(r, row, "write", "return")
    BY <2>3, LoadPreserves DEF Label, After
  <2>4. CASE Load(r, back, "write", "return")
    BY <2>1, <2>2, <2>4, LoadPreserves DEF Label, After
  <2> QED BY <1>2, <2>3, <2>4 DEF SaveWelcome
<1>3. ASSUME NEW r \in Request, EnsureInstallBundle(r) PROVE OnboardingInv'
  BY <1>3, LoadPreserves DEF EnsureInstallBundle, Label, After
<1>4. ASSUME NEW r \in Request, ConfigureDatabase(r) PROVE OnboardingInv'
  <2> DEFINE saved == [row EXCEPT !.step = Database]
  <2>1. row.step < Starter /\ row.step \in Nat
    BY <1>4 DEF ConfigureDatabase, Sound, Row
  <2>2. saved.step < Starter /\ Sound(saved)
    BY <2>1 DEF Sound, Row, Coherent, Discreet
  <2>3. CASE Load(r, saved, "write", "return")
    BY <2>1, <2>2, <2>3, LoadPreserves DEF Label, After
  <2>4. CASE Load(r, row, "configure", "return")
    BY <2>1, <2>4, LoadPreserves DEF Label, After
  <2> QED BY <1>4, <2>3, <2>4 DEF ConfigureDatabase
<1>5. ASSUME NEW r \in Request, RunSchemaIntrospection(r) PROVE OnboardingInv'
  BY <1>5, LoadPreserves DEF RunSchemaIntrospection, Label, After
<1>6. ASSUME NEW r \in Request, MarkSemanticApproved(r) PROVE OnboardingInv'
  <2> DEFINE copy == [row EXCEPT !.step = Starter, !.layer = TRUE]
  <2>1. row \in Row /\ row.step \in Nat /\ row.step >= Semantic
    BY <1>6 DEF MarkSemanticApproved, Sound, Row
  <2>2. copy \in Row
    <3>1. Starter \in Welcome .. Done /\ TRUE \in BOOLEAN /\ None \in Token \cup {None}
      OBVIOUS
    <3> QED BY <2>1, <3>1, RowUpdates, Zenon
  <2>3. /\ copy.step = Starter /\ copy.layer = TRUE
        /\ copy.token = row.token /\ copy.plain = row.plain /\ copy.session = row.session
        /\ copy.db = row.db /\ copy.schema = row.schema /\ copy.completed = row.completed
    BY <2>1 DEF Row
  <2>4. Load(r, copy, "write", "return")
    BY <1>6 DEF MarkSemanticApproved
  <2> HIDE DEF copy
  <2>5. Coherent(copy) /\ Discreet(copy)
    BY <1>6, <2>1, <2>3 DEF MarkSemanticApproved, Sound, Coherent, Discreet
  <2> QED BY <2>2, <2>3, <2>4, <2>5, LoadPreserves DEF Sound, Label, After
<1>7. ASSUME NEW r \in Request, CompleteStarterStep(r) PROVE OnboardingInv'
  <2> DEFINE copy == [row EXCEPT !.step = Done]
  <2>1. row \in Row /\ row.step \in Nat /\ row.step >= Starter
    BY <1>7 DEF CompleteStarterStep, Sound, Row
  <2>2. copy \in Row
    BY <2>1 DEF Row
  <2>3. /\ copy.step = Done
        /\ copy.token = row.token /\ copy.plain = row.plain /\ copy.session = row.session
        /\ copy.db = row.db /\ copy.schema = row.schema /\ copy.layer = row.layer /\ copy.completed = row.completed
    BY <2>1 DEF Row
  <2>4. Load(r, copy, "write", "return")
    BY <1>7 DEF CompleteStarterStep
  <2> HIDE DEF copy
  <2>5. Coherent(copy) /\ Discreet(copy)
    BY <1>7, <2>1, <2>3 DEF CompleteStarterStep, Sound, Coherent, Discreet
  <2> QED BY <2>2, <2>3, <2>4, <2>5, LoadPreserves DEF Sound, Label, After
<1>8. ASSUME NEW r \in Request, CompleteOnboarding(r) PROVE OnboardingInv'
  <2> DEFINE copy == [row EXCEPT !.step = Done, !.completed = TRUE]
  <2>1. row \in Row /\ row.step \in Nat /\ row.step >= Done
    BY <1>8 DEF CompleteOnboarding, Sound, Row
  <2>2. copy \in Row
    <3>1. Done \in Welcome .. Done /\ TRUE \in BOOLEAN /\ None \in Token \cup {None}
      OBVIOUS
    <3> QED BY <2>1, <3>1, RowUpdates, Zenon
  <2>3. /\ copy.step = Done /\ copy.completed = TRUE
        /\ copy.token = row.token /\ copy.plain = row.plain /\ copy.session = row.session
        /\ copy.db = row.db /\ copy.schema = row.schema /\ copy.layer = row.layer
    BY <2>1 DEF Row
  <2>4. Load(r, copy, "write", "return")
    BY <1>8 DEF CompleteOnboarding
  <2> HIDE DEF copy
  <2>5. Coherent(copy) /\ Discreet(copy)
    BY <1>8, <2>1, <2>3 DEF CompleteOnboarding, Sound, Coherent, Discreet
  <2> QED BY <2>2, <2>3, <2>4, <2>5, LoadPreserves DEF Sound, Label, After
<1>9. ASSUME NEW r \in Request, refreshAgentConnection(r) PROVE OnboardingInv'
  <2> DEFINE copy == Refreshed(rec[r])
  <2>1. Sound(copy) /\ copy.step >= rec[r].step
        /\ (rec[r].step < Starter => copy.step < Starter)
    BY RefreshedIsSound DEF OnboardingInv
  <2>2. CASE /\ rec' = [rec EXCEPT ![r] = copy]
             /\ Goto(r, "write")
             /\ UNCHANGED <<then, behind>>
    <3>1. then' = [then EXCEPT ![r] = then[r]] /\ then[r] \in After
      BY <2>2 DEF OnboardingInv, TypeOK
    <3>2. r \in behind => copy.step >= Starter
      BY <2>1 DEF OnboardingInv, HandlerInv, Sound, Row
    <3>3. then[r] # "return" => r \notin behind /\ copy.step < Starter
      BY <2>1 DEF OnboardingInv, HandlerInv
    <3>4. issued' \subseteq Token /\ UNCHANGED <<row, behind, online, latest, approved>>
      BY <1>9, <2>2 DEF refreshAgentConnection, world, OnboardingInv, TypeOK
    <3> QED BY <2>1, <2>2, <3>1, <3>2, <3>3, <3>4, WorkPreserves DEF Goto, Label
  <2>3. CASE Proceed(r)
    <3>1. then[r] = "issue" => rec[r].step < Starter
      BY DEF OnboardingInv, HandlerInv
    <3> QED BY <1>9, <2>3, <3>1, ProceedPreserves
            DEF refreshAgentConnection, world, Sound, Coherent, Discreet
  <2> QED BY <1>9, <2>2, <2>3 DEF refreshAgentConnection
<1>10. ASSUME NEW r \in Request, IssueAgentToken(r) PROVE OnboardingInv'
  <2>1. rec[r].step < Starter /\ r \notin behind
    BY <1>10 DEF IssueAgentToken, OnboardingInv, HandlerInv, TypeOK, Row
  <2>2. CASE UNCHANGED <<rec, issued>>
    <3>1. rec' = [rec EXCEPT ![r] = rec[r]]
      BY <2>2 DEF OnboardingInv, TypeOK
    <3> QED BY <1>10, <2>1, <2>2, <3>1, WorkPreserves
            DEF IssueAgentToken, Goto, Label, After, OnboardingInv, TypeOK
  <2>3. ASSUME NEW t \in Token, rec[r].token = None, issued' = issued \cup {t},
               rec' = [rec EXCEPT ![r].token = t, ![r].plain = TRUE]
        PROVE  OnboardingInv'
    <3> DEFINE copy == [rec[r] EXCEPT !.token = t, !.plain = TRUE]
    <3>1. rec' = [rec EXCEPT ![r] = copy]
      BY <2>3 DEF OnboardingInv, TypeOK
    <3>2. rec[r] \in Row /\ copy \in Row
      <4>1. rec[r] \in Row /\ Done \in Welcome .. Done /\ TRUE \in BOOLEAN
        BY DEF Sound
      <4> QED BY <2>3, <4>1, RowUpdates, Zenon
    <3>3. /\ copy.step = rec[r].step /\ copy.token = t /\ copy.plain = TRUE
          /\ copy.session = rec[r].session /\ copy.db = rec[r].db
          /\ copy.schema = rec[r].schema /\ copy.layer = rec[r].layer
          /\ copy.completed = rec[r].completed
      BY <3>2 DEF Row
    <3> HIDE DEF copy
    <3>4. rec[r].session = None
      BY <2>3 DEF Sound, Discreet
    <3>5. Coherent(copy) /\ Discreet(copy)
      BY <3>3, <3>4, OnboardingAssumption DEF Sound, Coherent, Discreet
    <3>6. Sound(copy) /\ copy.step < Starter
      BY <2>1, <3>2, <3>3, <3>5 DEF Sound
    <3>7. /\ issued' \subseteq Token /\ UNCHANGED <<row, behind, online, latest, approved>>
          /\ pc' = [pc EXCEPT ![r] = "write"] /\ then' = [then EXCEPT ![r] = "refresh"]
      BY <1>10, <2>3 DEF IssueAgentToken, Goto, OnboardingInv, TypeOK
    <3> QED BY <2>1, <3>1, <3>6, <3>7, WorkPreserves DEF Label, After
  <2> QED BY <1>10, <2>2, <2>3 DEF IssueAgentToken
<1>11. ASSUME NEW r \in Request, DatabaseConfigured(r) PROVE OnboardingInv'
  <2>1. rec[r].step < Starter /\ r \notin behind /\ then[r] \in After
    BY <1>11 DEF DatabaseConfigured, OnboardingInv, HandlerInv, TypeOK, Row
  <2> DEFINE failed == [rec[r] EXCEPT !.step = Database]
             verified == [rec[r] EXCEPT !.step = Schema, !.db = TRUE]
  <2>2. PICK copy \in {failed, verified} : rec' = [rec EXCEPT ![r] = copy]
    BY <1>11 DEF DatabaseConfigured, OnboardingInv, TypeOK
  <2>3. Sound(failed) /\ failed.step < Starter
    BY <2>1 DEF Sound, Row, Coherent, Discreet
  <2>5. rec[r] \in Row /\ rec[r].step \in Nat /\ verified \in Row
    <3>1. /\ Schema \in Welcome .. Done /\ TRUE \in BOOLEAN /\ None \in Token \cup {None}
          /\ rec[r] \in Row
      BY DEF Sound
    <3>2. verified \in Row
      BY <3>1, RowUpdates, Zenon
    <3> QED BY <3>1, <3>2 DEF Row
  <2>6. /\ verified.step = Schema /\ verified.token = rec[r].token
        /\ verified.plain = rec[r].plain /\ verified.session = rec[r].session
        /\ verified.db = TRUE /\ verified.schema = rec[r].schema
        /\ verified.layer = rec[r].layer /\ verified.completed = rec[r].completed
    BY <2>5 DEF Row
  <2>4. then' = [then EXCEPT ![r] = then[r]]
    BY <1>11 DEF DatabaseConfigured, OnboardingInv, TypeOK
  <2> HIDE DEF failed, verified
  <2>7. Sound(verified) /\ verified.step < Starter
    BY <2>1, <2>5, <2>6 DEF Sound, Coherent, Discreet
  <2> QED BY <1>11, <2>1, <2>2, <2>3, <2>4, <2>7, WorkPreserves
          DEF DatabaseConfigured, Goto, Label, world, OnboardingInv, TypeOK
<1>12. ASSUME NEW r \in Request, SchemaCaptured(r) PROVE OnboardingInv'
  <2>1. /\ rec[r].step < Starter /\ rec[r].step >= Schema
        /\ r \notin behind /\ then[r] \in After
    BY <1>12 DEF SchemaCaptured, OnboardingInv, HandlerInv, TypeOK, Row
  <2> DEFINE copy == [rec[r] EXCEPT !.step = Semantic, !.schema = TRUE]
  <2>2. rec' = [rec EXCEPT ![r] = copy]
    BY <1>12 DEF SchemaCaptured, OnboardingInv, TypeOK
  <2>3. rec[r] \in Row /\ rec[r].step \in Nat /\ copy \in Row
    <3>1. /\ Semantic \in Welcome .. Done /\ TRUE \in BOOLEAN /\ None \in Token \cup {None}
          /\ rec[r] \in Row
      BY DEF Sound
    <3>2. copy \in Row
      BY <3>1, RowUpdates, Zenon
    <3> QED BY <3>1, <3>2 DEF Row
  <2>4. then' = [then EXCEPT ![r] = then[r]]
    BY <1>12 DEF SchemaCaptured, OnboardingInv, TypeOK
  <2>5. /\ copy.step = Semantic /\ copy.token = rec[r].token
        /\ copy.plain = rec[r].plain /\ copy.session = rec[r].session
        /\ copy.db = rec[r].db /\ copy.schema = TRUE
        /\ copy.layer = rec[r].layer /\ copy.completed = rec[r].completed
    BY <2>3 DEF Row
  <2> HIDE DEF copy
  <2>6. Sound(copy) /\ copy.step < Starter
    BY <2>1, <2>3, <2>5 DEF Sound, Coherent, Discreet
  <2> QED BY <1>12, <2>1, <2>2, <2>4, <2>6, WorkPreserves
          DEF SchemaCaptured, Goto, Label, world, OnboardingInv, TypeOK
<1>13. ASSUME NEW r \in Request, persistState(r) PROVE OnboardingInv'
  <2>1. Sound(row)'
    BY <1>13 DEF persistState, Upsert, world, Sound, Coherent, Discreet
  <2>2. then[r] = "issue" => rec[r].step < Starter
    BY DEF OnboardingInv, HandlerInv
  <2> QED BY <1>13, <2>1, <2>2, ProceedPreserves DEF persistState
<1>14. ASSUME NEW r \in Request, Abandon(r) PROVE OnboardingInv'
  BY <1>14, ReturnPreserves DEF Abandon, world, Sound, Coherent, Discreet
<1>15. CASE IssueElsewhere \/ \E t \in Token : AgentConnects(t) \/ AgentDisconnects(t)
  BY <1>15
  DEF IssueElsewhere, AgentConnects, AgentDisconnects, request, OnboardingInv, TypeOK,
      RowIsCoherent, PlaintextIsForgotten, HandlerInv, Coherent, Discreet
<1>16. CASE LayerApproved
  BY <1>16 DEF LayerApproved, request, OnboardingInv, TypeOK, RowIsCoherent,
     PlaintextIsForgotten, HandlerInv, Coherent, Discreet
<1>17. CASE Restart
  BY <1>17, NewRowIsSound
  DEF Restart, OnboardingInv, TypeOK, RowIsCoherent, PlaintextIsForgotten, HandlerInv,
      Coherent, Discreet, Sound, Label, After
<1>18. CASE UNCHANGED vars
  BY <1>18 DEF vars, request, world, OnboardingInv, TypeOK, RowIsCoherent,
     PlaintextIsForgotten, HandlerInv, Coherent, Discreet
<1> QED BY <1>1, <1>2, <1>3, <1>4, <1>5, <1>6, <1>7, <1>8, <1>9, <1>10, <1>11, <1>12,
           <1>13, <1>14, <1>15, <1>16, <1>17, <1>18 DEF Next, Begin, Continue

(* The invariant of row and handlers, for every set of handlers and tokens. *)
THEOREM OnboardingInvariance == Spec => []OnboardingInv
BY InitInv, NextInv, PTL DEF Spec

(* Types of the onboarding row and of the handlers' copies.                *)
THEOREM OnboardingTypeCorrect == Spec => []TypeOK
<1>1. OnboardingInv => TypeOK BY DEF OnboardingInv
<1> QED BY <1>1, OnboardingInvariance, PTL

(* The stored step never claims more than the stored payload shows.        *)
THEOREM RowStaysCoherent == Spec => []RowIsCoherent
<1>1. OnboardingInv => RowIsCoherent BY DEF OnboardingInv
<1> QED BY <1>1, OnboardingInvariance, PTL

(* A row that shows an agent as connected has forgotten its token.         *)
THEOREM PlaintextStaysForgotten == Spec => []PlaintextIsForgotten
<1>1. OnboardingInv => PlaintextIsForgotten BY DEF OnboardingInv
<1> QED BY <1>1, OnboardingInvariance, PTL

(* An approved workspace is only taken back to a locked step by a handler  *)
(* that had read the row before the approval.                              *)
THEOREM LockNeedsStaleHandler == Spec => LockIsBrokenByStaleHandlersOnly
<1>1. OnboardingInv /\ [Next]_vars => [LockKept]_vars
  <2> SUFFICES ASSUME OnboardingInv, Next, row.step >= Starter, row'.step < Starter
               PROVE  \E r \in Request : pc[r] = "write" /\ r \notin behind
    BY DEF LockKept
  <2>1. ASSUME UNCHANGED row PROVE FALSE
    BY <2>1 DEF OnboardingInv, TypeOK, Row, Starter, Welcome, Done
  <2>2. PICK r \in Request : persistState(r)
    BY <2>1 DEF Next, Begin, Continue, GetState, GetAgentConnectionStatus,
       SaveWelcome, EnsureInstallBundle, ConfigureDatabase, RunSchemaIntrospection,
       MarkSemanticApproved, CompleteStarterStep, CompleteOnboarding, Load,
       refreshAgentConnection, IssueAgentToken, DatabaseConfigured, SchemaCaptured,
       Abandon, IssueElsewhere, AgentConnects, AgentDisconnects, LayerApproved, Restart
  <2>3. rec[r].step < Starter /\ rec[r].step \in Nat
    BY <2>2 DEF persistState, Upsert, OnboardingInv, TypeOK, Row, Welcome, Done
  <2> QED BY <2>2, <2>3 DEF persistState, OnboardingInv, HandlerInv, Starter
<1> QED BY <1>1, OnboardingInvariance, PTL DEF Spec, LockIsBrokenByStaleHandlersOnly
=============================================================================
