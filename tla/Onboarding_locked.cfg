SPECIFICATION FairSpec
CONSTANTS
  Request = {h1, h2}
  Poller = {h1}
  Token = {t1}
  None = None
PROPERTY LockedAfterApproval
