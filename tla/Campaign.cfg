SPECIFICATION FairSpec
CONSTANTS
  p1 = p1
  p2 = p2
  Senders = {p1, p2}
  MaxRetries = 1
  Requests <- MCRequests
  ExploitCases = 1
  BenignCases = 2
  ReplayPolicies <- MCCustom
  Prompts <- MCPrompt
  Padded <- MCNone
  MaxCampaigns = 1
INVARIANTS NoWorkerLost DegradedIsTrue SendsAreRecorded PromotableWasReplayed TaggedStaysInside
PROPERTIES CampaignEnds
CHECK_DEADLOCK FALSE
