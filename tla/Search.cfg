SPECIFICATION ServiceSpec
CONSTANTS
  Null = Null
  Titles <- MCTitles
  Phrases <- MCPhrases
  BuiltIn <- MCBuiltIn
  Weights <- MCWeights
  RamCost <- MCRamCost
  NvmeCost <- MCNvmeCost
  MachineFacts <- MCMachineFacts
  CpuFacts <- MCCpuFacts
  Config <- MCConfig
  Sites <- MCSites
  Plugins <- MCPlugins
  Invocations <- MCInvocations
  Responses <- MCResponses
INVARIANTS RankedIsObserved EveryListingAccounted FirstOffersRanked ClusterPlansCheapest RankedMeetsRequest SitesServed EnrichedHonest CapacitiesHonest OnlyPluginsFailSearch DominanceRespected
CHECK_DEADLOCK FALSE
