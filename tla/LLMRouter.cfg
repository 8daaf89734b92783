SPECIFICATION FairSpec
CONSTANTS
  Request = {r1, r2, r3}
  Candidates <- MCCandidates
  Body <- MCBody
  Threshold = 2
  OpenInterval = 1
INVARIANTS ClosedIffFewFailures ProbeIsOutstanding
PROPERTIES DefaultRecovers
