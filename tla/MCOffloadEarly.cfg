\* The block manager with early saves configured.
CONSTANTS
  Blocks = {b1, b2, b3}
  BlockSize = 2
  PrefixCaching = TRUE
  Sessions = {r1, r2}
  Sampled = {"x"}
  Prompts <- TwoPrompts
  MaxLen = 5
  Watermark = 1
  MaxWeights = 1
  MaxEpoch = 1
  CopyMayFail = TRUE
  CpuMax = 2
  PinnedMax = 2
  Configs <- TieredEarly
  EngineApi = TRUE
SPECIFICATION OffloadSpec
SYMMETRY Symmetry
PROPERTIES EarlySaveHarmless
CHECK_DEADLOCK FALSE
