SPECIFICATION Spec
CONSTANT MaxSignals = 0
INVARIANTS
  StopIsUndone
