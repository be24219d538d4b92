SPECIFICATION Spec
CONSTANTS
  N = 3
  Key = {k2}
  Source = {}
  Critical = {}
  NeedsReliable = {}
  Mortal = {}
  p = p
  q = q
  Plan = {p, q}
  Reliable = {p}
  Unsure = {q}
  None = None
  Limbo = Limbo
  Due = Due
  Contacts <- TwoAndOne
  MaxFaults = 2
  MaxReceipts = 2
PROPERTIES HandedOverInContact
CHECK_DEADLOCK FALSE
