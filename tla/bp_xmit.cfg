SPECIFICATION Spec
CONSTANTS
  N = 5
  Key = {k1, k2}
  Source = {k1}
  Critical = {k1}
  NeedsReliable = {k1}
  Mortal = {k2}
  p = p
  q = q
  Plan = {p, q}
  Reliable = {p}
  Unsure = {q}
  None = None
  Limbo = Limbo
  Due = Due
  Contacts <- TwoAndOne
  MaxFaults = 1
  MaxReceipts = 1
INVARIANTS TypeOK QueuesMatch CatalogueTrue StewardKept InOnePlace NotLost SeniorFirst
CHECK_DEADLOCK FALSE
