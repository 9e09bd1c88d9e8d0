\* Every turn ends: requests that never hold KV compete for the pool.
CONSTANTS
  Blocks = {b1, b2, b3, b4}
  BlockSize = 1
  PrefixCaching = FALSE
  Requests = {r1, r2, r3}
  Tokens = {x}
  NumSpec = 0
  MaxNumSeqs = 3
  MaxBatchedTokens = 4
  PromptLengths = {2}
  SuffixLengths = {1}
  MaxTokens = {2}
  Holds = {FALSE}
  MaxWeights = 1
  MaxEpoch = 1
  ForwardMayFail = FALSE
  UpdateMayFail = FALSE
  WakeWhenAwake = FALSE
SPECIFICATION FairSpec
PROPERTIES TurnsEnd
\* An engine without requests may stay idle.
CHECK_DEADLOCK FALSE
