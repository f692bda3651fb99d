SPECIFICATION ServiceSpec
CONSTANTS
  Null = Null
  Titles <- MCTitles
  Phrases <- MCPhrases
  BuiltIn <- MCBuiltIn
  Weights <- MCWeights
  RamCost <- MCRamCost
  NvmeCost <- MCNvmeCost
  MachineFacts <- MCMachineFacts
  CpuFacts <- MCCpuFacts
  Config <- MCConfig
  Sites <- MCSites
  Plugins <- NoPlugins
  Invocations <- PlainOnly
  Responses <- WornResponses
INVARIANTS EligibleSurvive
CHECK_DEADLOCK FALSE
