CONSTANTS
  r1 = r1
  r2 = r2
  r3 = r3
  Requests = {r1, r2, r3}
  PromptLens = {2}
  MaxLen = 5
  NumBlocks = 4
  BlockSize = 2
  MaxSeqs = 2
  WarmRuns = 1
  Setups <- CrowdOrQueue
  NoPool = NoPool
  NoGraph = NoGraph
  NoToken = NoToken
  Trainings <- QuietOrTraining
  Calls <- OneCall
  MaxVersion = 1
  BlockN = 2
  PageSize = 2
  ShortKv = 1
  SplitTokens = 1
  MaxSplits = 4
  Scale = 4
  Vocab = {0, 1, 2}
  Masked <- MaskedLogit
  NoIndex = NoIndex
  NaN = NaN
  NoLogprob = NoLogprob
SPECIFICATION MCSpec
INVARIANTS ReadsOwnContext SampledFromOwnRow RowsExact NoUnwrittenRead DecodeExact SamplerExact SpecExact NgramExact LogprobsPlaced
CHECK_DEADLOCK FALSE
