SPECIFICATION Spec
CONSTANTS
  Request = {q1}
  Owner = {}
  Example = {}
  None = None
INVARIANT AttemptsAreOneOrTwo
