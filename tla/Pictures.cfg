\* Requests inside and outside an explicit transaction; every step may fail,
\* and a dropped connection may let a finalization in under a handler.
SPECIFICATION Spec
CONSTANTS
  p0 = p0
  p1 = p1
  p2 = p2
  p3 = p3
  Pic = {p0, p1, p2, p3}
  First <- AtStart
  Gone = Gone
  MaxRequests = 3
  Modes = {"explicit", "standalone"}
  Failing = {"write", "mutate", "save", "uncertain", "unenlisted", "supersede", "unlink", "restore", "crash", "disconnect"}
SYMMETRY New
INVARIANTS OnlyUnrepairedFaultsLoseFiles RollbackUndoes NoFileIsLeaked
CHECK_DEADLOCK FALSE
