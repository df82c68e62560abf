SPECIFICATION Spec
CONSTANTS
  known = known
  stranger = stranger
  Identity = {known, stranger}
  Account = {known}
  Users <- MCUsers
  IpKey = IpKey
  RegisterKey = RegisterKey
  Key <- MCKey
  Limit <- MCLimit
  Window <- MCWindow
  Request = {r1, r2, r3}
  ReservationMax = 2
  CleanupInterval = 2
  MaxKeys = 2
  TicksPerSecond = 2
  Lifetime = 2
  MaxTime = 5
INVARIANTS RequestsAreLimited FailuresAreLimited ReservationsAreHeld
  AlwaysReopens RetryAfterIsExact SessionsMatchAccounts
SYMMETRY Interchangeable
CHECK_DEADLOCK FALSE
