SPECIFICATION Spec
CONSTANTS
  r1 = r1
  r2 = r2
  a1 = a1
  a2 = a2
  t1 = t1
  t2 = t2
  ko = ko
  en = en
  Request = {r1, r2}
  Asker = {a1, a2}
  Table = {t1, t2}
  Sources = {{t1, t2}}
  Locale = {ko, en}
  Text = {""}
  AgentTime = {1, 2}
  MaxClock = 4
  MaxVersions = 2
  MaxLayers = 3
  MaxSets = 2
SYMMETRY MCSymmetry
CONSTRAINT MCConstraint
INVARIANTS OneDraftOneApproved LayersFitTheirSchema
  SetsReplaceEachOther AnswersAreInLocaleOrNewer QuestionsFitTheSchema
PROPERTIES ApprovedNeverVanishes
