SPECIFICATION WatchSpec
CONSTANTS
  Clients = {a, b}
  NoClient = NoClient
  Null = Null
  k1 = k1
  k2 = k2
  Keys <- MCKeys
  Items <- MCItems
  Runs <- PriceRuns
  MaxRuns = 3
  MaxClock = 2
  Commands = {"watch", "search"}
  Faults = {"kill", "notifier", "abort"}
  Overlap = FALSE
  Top = 20
  MinScore = 85
  MinDropBp = 500
INVARIANTS WatchTypeOK SeenInOrder NewsNotRepeated
PROPERTIES ImplementsFeed
