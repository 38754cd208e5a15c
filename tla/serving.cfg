\* Three clients, two connections, an outage and a call made again.
CONSTANTS
  c1 = c1
  c2 = c2
  c3 = c3
  Clients = {c1, c2, c3}
  Ops <- Roles
  MaxRows = 5
  InitRows = 1
  PoolSize = 1
  MaxOverflow = 1
  DedupTopK = 2
  MaxRetries = 1
  MaxOutages = 1
SPECIFICATION ServingFairSpec
INVARIANTS
  ConnectionsAccounted
  OutageOverForLater
  StatsBracketed
  RetriesStoreOnce
  StoredPerOutage
  ServingIInv
PROPERTIES
  RequestsEnd
