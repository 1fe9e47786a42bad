SPECIFICATION Spec
CONSTANTS
  MaxFrame = 3
  MaxChunk = 3
  MaxBytes = 8
INVARIANTS
  TypeOK
  FramesAreExact
