SPECIFICATION FairSpec
CONSTANTS
  Uids = {9999, 10000, 10123, 2000000, 2000001}
  UidText <- MCUidText
  InstalledAs = {9999, 10000, 2000001}
  Strangers = {10001}
  Settings <- MCSettings
  Scripts <- MCScripts
  Errors <- MCErrors
INVARIANTS
  TypeOK
  NothingButAsked
  AppIsObeyed
  AcceptedIsPlayed
PROPERTY ReadLoopEnds
