SPECIFICATION FairWatchSpec
CONSTANTS
  Clients = {a}
  NoClient = NoClient
  Null = Null
  k1 = k1
  k2 = k2
  Keys <- MCKeys
  Items <- MCItems
  Runs <- RankRuns
  MaxRuns = 3
  MaxClock = 1
  Commands = {"watch"}
  Faults = {}
  Overlap = FALSE
  Top = 1
  MinScore = 85
  MinDropBp = 500
PROPERTIES StrongDealsAnnounced
