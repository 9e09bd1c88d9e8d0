\* Forwards and weight updates that fail, and sessions that hold KV while they wait or think,
\* without prefix caching.
CONSTANTS
  Blocks = {b1, b2, b3, b4}
  BlockSize = 2
  PrefixCaching = FALSE
  Requests = {r1, r2}
  Tokens = {x}
  NumSpec = 0
  MaxNumSeqs = 2
  MaxBatchedTokens = 3
  PromptLengths = {1, 4}
  SuffixLengths = {1}
  MaxTokens = {1, 2}
  Holds = {TRUE, FALSE}
  MaxWeights = 1
  MaxEpoch = 2
  ForwardMayFail = TRUE
  UpdateMayFail = TRUE
  WakeWhenAwake = FALSE
SPECIFICATION Spec
SYMMETRY Symmetry
INVARIANTS EngineInv HeldTablesResumable QueuesExact
PROPERTIES GiveUpNamesAnother
\* An engine without requests may stay idle.
CHECK_DEADLOCK FALSE
