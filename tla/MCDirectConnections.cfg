CONSTANTS
  Client = {a, b}
  Opener = {a, b}
  Opens = 1
  Room = {1}
  Faults = {"stop", "exit", "expire"}
SPECIFICATION Spec
SYMMETRY Symmetry
INVARIANTS
  DescriptorOutlivesUse
  ActiveTogether
  OneAnswer
CHECK_DEADLOCK FALSE
