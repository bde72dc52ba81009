CONSTANTS
  Thread = {t1, t2, t3}
  Value = {0, 1}
  Capacity = 2
  Width = 3
  Nothing = Nothing
SPECIFICATION Spec
SYMMETRY ThreadSymmetry
INVARIANTS
  SlotExclusive
  CountersInRange
PROPERTIES
  ImplementsQueue
CHECK_DEADLOCK TRUE
