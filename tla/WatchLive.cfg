SPECIFICATION FairWatchSpec
CONSTANTS
  Clients = {a, b}
  NoClient = NoClient
  Null = Null
  k1 = k1
  k2 = k2
  Keys <- MCKeys
  Items <- MCItems
  Runs <- OverlapRuns
  MaxRuns = 2
  MaxClock = 1
  Commands = {"watch"}
  Faults = {"abort"}
  Overlap = TRUE
  Top = 2
  MinScore = 85
  MinDropBp = 500
PROPERTIES InvocationsEnd SnapshotsAnnounced StrongDealsAnnounced
