-------------------------- MODULE StarterQuestions --------------------------
(***************************************************************************)
(* StarterQuestionsController (controller/starter_questions.go, its        *)
(* validator and repository/starter_questions.go) next to the layers its   *)
(* questions are generated from.                                           *)
(*                                                                         *)
(* ReplaceActiveSet is a transaction at READ COMMITTED with no unique      *)
(* index behind it.  Its UPDATE deactivates the rows that were committed   *)
(* and active when the statement began (a row locked by another            *)
(* transaction is waited for and, deactivated by then, skipped); rows      *)
(* committed later stay active.  created_at is NOW(), the time of BEGIN.   *)
(*                                                                         *)
(* Of the ten questions of a set the tables they are about are kept.       *)
(***************************************************************************)
EXTENDS SemanticLayers, FiniteSets

CONSTANTS
  Asker,          \* List and Regenerate calls under way, at most
  Locale,
  MaxSets

ASSUME StarterAssumption == MaxSets \in Nat /\ IsFiniteSet(Table)

VARIABLES
  sets,           \* tenant_starter_questions by set_id, in order of commit
  job             \* job[a]: what call a has in hand

vars == <<layerVars, sets, job>>

StarterInit == Init /\ sets = << >> /\ job = [a \in Asker |-> Idle]

Give(a, j) == job' = [job EXCEPT ![a] = j]

Active == {s \in DOMAIN sets : sets[s].active}

(* LatestActive: ORDER BY created_at DESC; 0 is ErrNotFound.               *)
LatestActive ==
  IF Active = {} THEN 0
  ELSE CHOOSE s \in Active : \A t \in Active : sets[t].created <= sets[s].created

(* LatestApprovedByTenant, over all versions; 0 is ErrNotFound.            *)
LatestApprovedByTenant ==
  LET approved == {i \in DOMAIN layers : layers[i].status = "approved"}
  IN  IF approved = {} THEN 0
      ELSE CHOOSE i \in approved : \A j \in approved : layers[j].at <= layers[i].at

Ready(a) == job[a].pc \in {"idle", "answered"}

(* What a caller gets: a set; asked and seen are history (the locale, and  *)
(* how many sets were there when the call looked).                         *)
Answered(s, locale, n) == [pc |-> "answered", set |-> s, asked |-> locale, seen |-> n]

\* Fault: the cached set is returned whatever its locale.
cached_AnyLocale(locale) == LatestActive # 0

(* The set that List returns without generating one.                       *)
cached(locale) == LatestActive # 0 /\ sets[LatestActive].locale = locale

List(a) ==
  /\ Ready(a)
  /\ \E locale \in Locale :
       /\ cached(locale)
       /\ Give(a, Answered(LatestActive, locale, Len(sets)))
  /\ UNCHANGED <<layerVars, sets>>

(* generate: the approved layer is read, and the LLM asked.  List comes    *)
(* here if nothing is cached for the locale, Regenerate in any case.       *)
generate(a) ==
  /\ Ready(a)
  /\ LatestApprovedByTenant # 0
  /\ \E locale \in Locale :
       Give(a, [pc |-> "ask", layer |-> LatestApprovedByTenant,
                locale |-> locale, attempt |-> 0])
  /\ UNCHANGED <<layerVars, sets>>

Least(m, n) == IF m < n THEN m ELSE n

\* Fault: tables outside the layer are accepted.
validateStarterQuestions_AnyTable(tables, content) ==
  /\ DOMAIN content.tables # {}
  /\ Cardinality(tables) >= Least(5, Cardinality(DOMAIN content.tables))

(* Every question is about a table the layer describes, and all together   *)
(* about five of them, or all if there are fewer.                          *)
validateStarterQuestions(tables, content) ==
  /\ DOMAIN content.tables # {}
  /\ tables \subseteq DOMAIN content.tables
  /\ Cardinality(tables) >= Least(5, Cardinality(DOMAIN content.tables))

(* The LLM answers with questions about tables, if it is well formed; the  *)
(* first bad answer is returned to it, the second fails the call.          *)
LLMAnswers(a) ==
  /\ job[a].pc = "ask"
  /\ \E tables \in SUBSET Table :
       IF validateStarterQuestions(tables, layers[job[a].layer].content)
       THEN Give(a, [pc |-> "begin", layer |-> job[a].layer,
                     locale |-> job[a].locale, tables |-> tables])
       ELSE job[a].attempt = 0 /\ Give(a, [job[a] EXCEPT !.attempt = 1])
  /\ UNCHANGED <<layerVars, sets>>

(* ReplaceActiveSet: BEGIN                                                 *)
Begin(a) ==
  /\ job[a].pc = "begin"
  /\ Tick
  /\ Give(a, [pc |-> "deactivate", layer |-> job[a].layer, locale |-> job[a].locale,
              tables |-> job[a].tables, created |-> clock + 1])
  /\ UNCHANGED <<db, versions, layers, task, sets>>

(* The UPDATE finds its rows; seen is history.                             *)
deactivatePriorSets(a) ==
  /\ job[a].pc = "deactivate"
  /\ Give(a, [pc |-> "insert", layer |-> job[a].layer, locale |-> job[a].locale,
              tables |-> job[a].tables, created |-> job[a].created,
              prior |-> Active, seen |-> Len(sets)])
  /\ UNCHANGED <<layerVars, sets>>

\* Fault: the set is inserted before the others are deactivated.
insertSet_BeforeDeactivation(a) ==
  /\ job[a].pc = "insert"
  /\ Len(sets) < MaxSets
  /\ LET j == job[a]
         rest == [s \in DOMAIN sets |-> [sets[s] EXCEPT !.active = FALSE]]
     IN  /\ sets' = Append(rest, [layer |-> j.layer, locale |-> j.locale,
                                  tables |-> j.tables, created |-> j.created,
                                  seen |-> j.seen, active |-> FALSE])
         /\ Give(a, [pc |-> "answer", locale |-> j.locale, seen |-> j.seen])
  /\ UNCHANGED layerVars

(* insertSet and COMMIT                                                    *)
insertSet(a) ==
  /\ job[a].pc = "insert"
  /\ Len(sets) < MaxSets
  /\ LET j == job[a]
         rest == [s \in DOMAIN sets |->
                    [sets[s] EXCEPT !.active = @ /\ s \notin j.prior]]
     IN  /\ sets' = Append(rest, [layer |-> j.layer, locale |-> j.locale,
                                  tables |-> j.tables, created |-> j.created,
                                  seen |-> j.seen, active |-> TRUE])
         /\ Give(a, [pc |-> "answer", locale |-> j.locale, seen |-> j.seen])
  /\ UNCHANGED layerVars

(* The second LatestActive of generateAndPersist is what the caller gets.  *)
answer(a) ==
  /\ job[a].pc = "answer"
  /\ LatestActive # 0
  /\ Give(a, Answered(LatestActive, job[a].locale, job[a].seen))
  /\ UNCHANGED <<layerVars, sets>>

(* An error of the LLM or of a statement, or the end of the context; the   *)
(* transaction is rolled back.                                             *)
Fail(a) ==
  /\ ~Ready(a)
  /\ Give(a, Idle)
  /\ UNCHANGED <<layerVars, sets>>

StarterNext ==
  \E a \in Asker :
    \/ List(a) \/ generate(a) \/ LLMAnswers(a) \/ Begin(a)
    \/ deactivatePriorSets(a) \/ insertSet(a) \/ answer(a) \/ Fail(a)

Next == (LayersNext /\ UNCHANGED <<sets, job>>) \/ StarterNext

Spec == StarterInit /\ [][Next]_vars

-----------------------------------------------------------------------------
(* Properties.                                                             *)

(* Once the tenant has starter questions some set is active: no order of   *)
(* racing replacements retires them all, and the read that ends            *)
(* generateAndPersist always finds one.  And two sets are active together  *)
(* only if the later commit could not see the earlier one.                 *)
SetsReplaceEachOther ==
  /\ sets # << >> => Active # {}
  /\ \A s, t \in Active : s < t => s > sets[t].seen

(* A caller gets questions in the language asked for, or a set that was    *)
(* committed only after the call had looked: never an older set in another *)
(* language.                                                               *)
AnswersAreInLocaleOrNewer ==
  \A a \in Asker :
    job[a].pc = "answered" =>
      sets[job[a].set].locale = job[a].asked \/ job[a].set > job[a].seen

(* Starter questions are about tables of the schema version behind them,   *)
(* through the LLM's draft, edits, the approval and the LLM's questions,   *)
(* and come from a layer that somebody approved.                           *)
QuestionsFitTheSchema ==
  \A s \in DOMAIN sets :
    LET layer == layers[sets[s].layer]
    IN  /\ layer.at > 0
        /\ sets[s].tables # {}
        /\ sets[s].tables \subseteq versions[layer.ver].schema
=============================================================================
