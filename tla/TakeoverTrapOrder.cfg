SPECIFICATION Spec
CONSTANT MaxSignals = 1
PROPERTIES
  ProcessesEndBeforeRestore
