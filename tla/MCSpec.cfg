\* Speculative decoding with prefix caching, full and partial hits and a reset of the cache.
CONSTANTS
  Blocks = {b1, b2, b3}
  BlockSize = 2
  PrefixCaching = TRUE
  Requests = {r1, r2}
  Tokens = {x, y}
  NumSpec = 2
  MaxNumSeqs = 2
  MaxBatchedTokens = 4
  PromptLengths = {2, 3}
  SuffixLengths = {1}
  MaxTokens = {3}
  Holds = {TRUE, FALSE}
  MaxWeights = 1
  MaxEpoch = 1
  ForwardMayFail = FALSE
  UpdateMayFail = FALSE
  WakeWhenAwake = FALSE
SPECIFICATION Spec
SYMMETRY Symmetry
INVARIANTS ProtocolInv RefExact WriteSpanPrivate KVSound CacheSound PassesSuffice
PROPERTIES TurnProtocol
\* An engine without requests may stay idle.
CHECK_DEADLOCK FALSE
