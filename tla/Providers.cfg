SPECIFICATION CredentialsSpec
CONSTANTS
  google = google
  old = old
  new = new
  None = None
  Provider = {google}
  Tab = {t1}
  Slot = {r1, r2}
  MaxWrites = 2
  MaxTests = 2
  Pair <- MCPair
  Right <- MCRight
INVARIANT VerifiedPairsPassed
PROPERTY SignInsAreCurrent
SYMMETRY Symmetry
CONSTRAINT Bound
