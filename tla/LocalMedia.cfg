SPECIFICATION FairSpec
CONSTANTS
  MaxCommands = 2
  Backlog = 2
INVARIANTS
  TypeOK
  LastCommandHolds
PROPERTIES
  PlaybacksApart
  StoppedPlaybackEnds
  LatestPlaybackServed
