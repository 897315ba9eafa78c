SPECIFICATION IndependentSpec
CONSTANTS
  Personas <- MCPersonas  SuccessThresholds = {40, 45}
  MaxIterations = 3
  TreeDepth = 3  TreeWidth = 1  BranchingFactor = 2
  CrescendoMaxTurns = 3  BacktrackLimit = 1  EscalationThreshold = 30  MaxPivots = 2
  MctsSimulations = 4  MctsMaxDepth = 2  MctsStrategyCount = 2  MctsRolloutTurns = 1
  MctsBudget = 10  TokensPerExchange = {1, 3}
  ReconProbes = 3
  Actions <- MCActions
  PolicyLists <- MCPolicyLists
  seed = seed
  bold = bold
  meek = meek
  stray = stray
  o1 = o1
  o2 = o2
  Candidates = {seed, bold, meek, stray}
  Seed = seed
  Stray = {stray}
  Sealed = {bold}
  Leaky = {meek}
  Train = {o1}
  Val = {o1, o2}
  Control = {o2}
  Results <- MCResults
  MaxAsr = 1
  MaxScore = 3
  Budget = 6
  Plans <- MCPlans
  s1 = s1
  b1 = b1
  Fixtures = {s1, b1}
  SpiritualSpell = {s1}
  RiskOf <- MCRiskOf
  StrategyOf <- MCStrategyOf
  Texts = {"t1", "t2", "t3"}
  Blank = "blank"
  Jobs <- MCJobs
  Targets = {"local-dev", "live"}
  i1 = i1
  i2 = i2
  Importers = {i1, i2}
  Replayers = {"r1"}
  plain = plain
  distraction = distraction
  guardrail = guardrail
  LayerFields <- MCFields
  LayerRank <- MCRank
  BatchSizes = {2, 3}
  LayerProfiles <- MCLayerProfiles
  EditedPlans <- MCEditedPlans
  Unasked <- MCUnasked
  MaxBatches = 2
SYMMETRY Importing
INVARIANTS QueriesAreBounded TapJudgesTheBest MctsVisitsAddUp HistoryIsTheEscalatedTurns SpoofNeverHelps DenialIgnoresOrder ArtifactsAreWhole OnlyApprovedTextIsSent ReadyIffReplayable EveryLayerIsTried
CHECK_DEADLOCK FALSE
