\* A weight update fails halfway while a request runs.
CONSTANTS
  Blocks = {b1, b2, b3}
  BlockSize = 1
  PrefixCaching = TRUE
  Requests = {r1, r2}
  Tokens = {x, y}
  NumSpec = 0
  MaxNumSeqs = 2
  MaxBatchedTokens = 2
  PromptLengths = {1, 2}
  SuffixLengths = {1}
  MaxTokens = {1}
  Holds = {TRUE, FALSE}
  MaxWeights = 1
  MaxEpoch = 2
  ForwardMayFail = FALSE
  UpdateMayFail = TRUE
  WakeWhenAwake = FALSE
SPECIFICATION Spec
SYMMETRY Symmetry
INVARIANTS CacheSound
\* An engine without requests may stay idle.
CHECK_DEADLOCK FALSE
