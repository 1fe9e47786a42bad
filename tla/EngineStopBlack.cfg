SPECIFICATION Spec
CONSTANTS
  MaxGeneration = 2
  MaxSessions = 4
INVARIANT StoppedShowsBlack
