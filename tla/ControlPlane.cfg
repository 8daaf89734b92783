SPECIFICATION FairSpec
CONSTANTS
  old = old
  new = new
  squashed = squashed
  None = None
  Instance = {i1, i2}
  Image = {old, new, squashed}
  HeadVersion <- MCHeadVersion
  Script <- MCScript
  Environment <- MCEnvironment
  Width = 5
  Plain = {c1}
  H2c = {s1}
  MaxBoots = 3
  MaxCrashes = 1
INVARIANTS ServesItsSchema DrainsBeforeClosing
PROPERTIES TerminateExits
CHECK_DEADLOCK FALSE
