\* Two requests save at the same time.
SPECIFICATION Spec
CONSTANTS
  Key = {k1, k2}
  Op = {a, b}
  Base = Base
  None = None
  Empty = Empty
  Torn = Torn
  Serial = FALSE
SYMMETRY Interchangeable
INVARIANTS FailedWritesLeaveNoTrace
CHECK_DEADLOCK FALSE
