\* One mutating operation at a time; every I/O step may fail, and the process
\* may die and restart between any two.
SPECIFICATION Spec
CONSTANTS
  Key = {k1, k2}
  Op = {a, b, c}
  Base = Base
  None = None
  Empty = Empty
  Torn = Torn
  Serial = TRUE
SYMMETRY Interchangeable
INVARIANTS DatabaseIsWhole MemoryMatchesDisk
PROPERTIES AtomicSpec
CHECK_DEADLOCK FALSE
