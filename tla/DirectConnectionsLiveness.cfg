CONSTANTS
  Client = {a, b}
  Opener = {a}
  Opens = 1
  Room = {0,1}
  Faults = {"exit","close_all"}
SPECIFICATION FairSpec
PROPERTIES
  OpenIsAnswered
  ClosingEnds
CHECK_DEADLOCK FALSE
