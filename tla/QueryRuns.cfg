SPECIFICATION FairSpec
CONSTANTS
  Request = {q1}
  Owner = {o1, o2}
  Example = {e1, e2}
  None = None
INVARIANTS ReplyMatchesRecord AttemptsTellTheStory
PROPERTIES RunsSettle
