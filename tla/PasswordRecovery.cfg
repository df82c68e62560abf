SPECIFICATION Spec
CONSTANTS
  Token = {t1, t2, t3, t4}
  User = {u1, u2}
  Request = {r1, r2}
  Call = {c1, c2}
  MaxOutstanding = 1
  Ttl = 0
  MaxTime = 1
SYMMETRY Interchangeable
INVARIANTS LinksWorkOnce OnlyNewestLinkWorks
PROPERTIES NewestLinkWorks
CHECK_DEADLOCK FALSE
