SPECIFICATION FairSpec
CONSTANTS
  MaxGeneration = 2
  MaxSessions = 3
INVARIANTS
  TypeOK
  WorkersOwnSession
  FrameAccounting
  SessionAsTold
  OneFrameInFlight
  OutageKeepsPicture
PROPERTIES
  PipeSpec
  RequestAnswered
  FreshFrameShown
  ShutdownWithProducer
