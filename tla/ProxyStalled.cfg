SPECIFICATION FairSpec
CONSTANTS
  Clients = {c1, c2}
  NoClient = NoClient
  Cap = 1
PROPERTY StalledProducerAbandoned
