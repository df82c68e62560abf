\* The lease is released on 'close' while the handler is still mutating.
SPECIFICATION Spec
CONSTANTS
  Tx = {t1, t2}
  Owner = {s1, s2}
  NoOwner = NoOwner
  Req = {r1, r2}
  NoTx = NoTx
  MaxActions = 1
  Disconnects = TRUE
INVARIANTS HandlersSeeOpenTransaction
SYMMETRY Interchangeable
CHECK_DEADLOCK FALSE
