SPECIFICATION FairSpec
CONSTANTS
  a1 = a1
  k1 = k1
  None = None
  User = {u1, u2, u3}
  Verified = {u1, u2}
  Tenant = {t1, t2}
  Token = {k1, k2}
  Email = {e1}
  Agent = {a1}
  TokenOf <- MCTokenOf
  StaleAfter = 1
  Ahead = 1
INVARIANTS RowsAreTheTenantsOwn
PROPERTIES RevocationCutsOff
