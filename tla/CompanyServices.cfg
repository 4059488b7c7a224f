SPECIFICATION ServicesSpec
CONSTANTS
  Subs = {r1, r2}
  Prices = {trial, basic, pro}
  Free = {trial}
  Featured = {basic, pro}
  Workers = {w1}
  None = None
  Moves = {"trial", "dunning", "end", "cancel"}
  Ordered = TRUE
  MaxEvents = 9
  MaxFaults = 0
  Passes = {r1, r2}
  MaxChunks = 2
  MaxIngestFaults = 1
  Ingested = {r1, r2}
  Concepts = {e1, e2}
  SummaryJobs = {e1, e2}
  NoCommunity = None
  MaxCommunityFaults = 1
  Links = {r1, r2}
  Env = None
  AiCalls = {w1}
  MaxRefreshes = 1
  MaxCooled = 1
  Attempts = {r1, r2}
  MaxRepairs = 6
  MaxUnknown = 1
  ToolCalls = {r1, r2, w1}
  UnknownCalls = {w1}
  MaxModelAttempts = 2
  MaxIterations = 3
  RepeatLimit = 2
  MaxBatch = 2
  MaxRestarts = 2
  KeyConcepts = {e1, e2}
  Texts = {r1, r2}
  MadeUp = None
  MaxCalls = 12
  MaxBatches = 3
  RecursionLimit = 22
  Requests = {r1, r2, b1}
  FirstRequest = b1
  MaxPriors = 2
  MaxConversationFaults = 1
  Short = 2
  MinChunk = 4
  Target = 6
  Joint = 8
  Cap = 12
  TextSizes = {1, 3, 13}
  MaxLines = 4
  Documents <- SmallDocuments
  MaxSplitFaults = 1
  Records = 3
  PageSizes = {1, 2}
  MaxChanges = 1
INVARIANTS
  
  
  CommunitiesSound
  
  RepairsSound
  LlmCallSound
  StreamSound
  WalkSound
  
  
  ListingSound
CHECK_DEADLOCK FALSE
SYMMETRY Symmetry
