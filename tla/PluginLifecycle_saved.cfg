SPECIFICATION Spec
CONSTANTS
  Faults = {"open", "thread", "freeze", "load"}
  MaxFrame = 2
CHECK_DEADLOCK FALSE
INVARIANTS
  RegistersSaved
