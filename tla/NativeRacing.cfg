\* Two attempts that sweep one another; claims race callbacks, codes, cancellation, expiry.
SPECIFICATION Spec
CONSTANTS
  Attempt = {a1, a2}
  Claim = {c1, c2}
  User = {u1, u2}
  NoUser = NoUser
  AttemptTtl = 1
  Retention = 1
  ConfirmationAttempts = 2
  MaximumAttempts = 2
  MaxTime = 2
SYMMETRY Interchangeable
INVARIANT StateMapsAreExact
PROPERTIES SessionsAreLinked GrantSpec
CHECK_DEADLOCK FALSE
