SPECIFICATION RuntimeFairSpec
CONSTANT MaxSignals = 2
INVARIANTS
  TypeOK
  BookkeepingIsTrue
  EndIsSafe
PROPERTIES
  StartFindsTakeover
  QuietHandover
  SignalEndsScript
  ProviderLossRestoresOem
