\* Clients may drop their connection while a handler is running, or vanish.
SPECIFICATION FairSpec
CONSTANTS
  Tx = {t1, t2}
  Owner = {s1, s2}
  NoOwner = NoOwner
  Req = {r1, r2}
  NoTx = NoTx
  MaxActions = 2
  Disconnects = TRUE
INVARIANTS LeaseIsExclusive IdleTimerCoversOpen ActionsRunOnceInOrder
PROPERTIES OutcomeSpec EventuallyFinalized
CHECK_DEADLOCK FALSE
