SPECIFICATION FairSpec
CONSTANTS
  InitialTimeout = 2
  ConnectedTimeout = 1
  TermAttempts = 2
  PipeSize = 2
INVARIANTS
  TypeOK
  ChildIsOurs
PROPERTIES
  CallEnds
  LogNeverBlocks
