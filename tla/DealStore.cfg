SPECIFICATION Spec
CONSTANTS
  Clients = {a, b}
  NoClient = NoClient
  Null = Null
  k1 = k1
  k2 = k2
  Keys <- MCKeys
  Items <- MCItems
  Runs <- MixedRuns
  MaxRuns = 2
  MaxClock = 3
INVARIANTS TypeOK Isolation RunsComplete SeenMatchesHistory SavedRunIsMine SchemaReady
PROPERTIES AppendOnly HistoryGrows ImplementsLedger
