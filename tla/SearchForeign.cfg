SPECIFICATION ServiceSpec
CONSTANTS
  Null = Null
  Titles <- MCTitles
  Phrases <- MCPhrases
  BuiltIn <- MCBuiltIn
  Weights <- MCWeights
  RamCost <- MCRamCost
  NvmeCost <- MCNvmeCost
  MachineFacts <- MCMachineFacts
  CpuFacts <- MCCpuFacts
  Config <- MCConfig
  Sites <- MCSites
  Plugins <- ShopPlugin
  Invocations <- ShopOnly
  Responses <- ForeignResponses
INVARIANTS ProvidersIsolated
CHECK_DEADLOCK FALSE
