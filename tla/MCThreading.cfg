CONSTANTS
  Thread = {t1, t2, t3}
  Capacity = 2
  Direct = {d1}
  Notified = {n1}
  Publications = 2
  Burst = 1
SPECIFICATION MCSpec
INVARIANTS
  SlotHasOneOwner
  OutstandingIsExact
  NoLostWake
PROPERTIES
  ClosingCompletes
  WorkIsHandled
CHECK_DEADLOCK TRUE
