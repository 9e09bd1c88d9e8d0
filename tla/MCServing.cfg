\* Two handler threads of the OpenAI server in flight at once.
CONSTANTS
  MaxRequests = 2
  TurnLengths = {1, 2}
  Chunks = {0}
  MaxEmit = 1
  StepMayFail = FALSE
  FrontEnds = {"openai"}
  Chats = {c1, c2}
  Resets = {}
  Keys = {k1, k2}
  All = All
  AddMayFail = FALSE
  TimeOutIn = {}
  ResetIn = {}
  Concurrent = TRUE
  Modes = {"batch"}
  Policies = {"always"}
  TurnsOf <- SessionTurns
  MaxActive = 2
  MaxOccupancy = 1
SPECIFICATION Spec
INVARIANTS StreamExact
\* A server without requests stays idle.
CHECK_DEADLOCK FALSE
