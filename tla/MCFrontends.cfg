\* The rollout server, the OpenAI server with one request at a time, and the SLO harness.
CONSTANTS
  MaxRequests = 3
  TurnLengths = {1, 2}
  Chunks = {0}
  MaxEmit = 2
  StepMayFail = TRUE
  FrontEnds = {"held", "impatient", "unheld", "openai", "harness"}
  Chats = {c1, c2}
  Resets = {h1}
  Keys = {k1}
  All = All
  AddMayFail = TRUE
  TimeOutIn = {"impatient"}
  ResetIn = {"held", "openai"}
  Concurrent = FALSE
  Modes = {"sessions", "poisson", "batch", "sequence"}
  Policies = {"always", "session_slo", "request_slo", "any"}
  TurnsOf <- SessionTurns
  MaxActive = 2
  MaxOccupancy = 1
SPECIFICATION FairSpec
INVARIANTS AnswersExact NoChatLost ServeRunExact SlotsKept
PROPERTIES ChatsAnswered HarnessEnds
\* Front ends without requests may stay idle.
CHECK_DEADLOCK FALSE
