SPECIFICATION Spec
CONSTANTS
  Clients = {a, b}
  NoClient = NoClient
  Null = Null
  k1 = k1
  k2 = k2
  Keys <- MCKeys
  Items <- MCItems
  Runs <- VariantRuns
  MaxRuns = 2
  MaxClock = 2
INVARIANTS ShowFindsEveryRank
