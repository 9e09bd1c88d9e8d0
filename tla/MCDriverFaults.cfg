\* Stops that time out, failing steps and admissions, retries, cancelled callers and calls.
CONSTANTS
  t1 = t1
  t2 = t2
  t3 = t3
  t4 = t4
  Turns = {t1, t2, t3}
  NoTurn = NoTurn
  Parent <- OneContinuation
  MaxSteps = 2
  MaxFree = 0
  CpuOffload = FALSE
  MaxSessions = 1
  Calls = {w1}
  MaxNumSeqs = 2
  MaxStops = 1
  Operations = {"sleep", "update", "abort"}
  StepErrors = {"pool", "error"}
  AdmitMayFail = TRUE
  UpdateMayFail = FALSE
  StopMayTimeOut = TRUE
  CallMayTimeOut = TRUE
  MayCancel = TRUE
SPECIFICATION Spec
INVARIANTS DriverInv OperationsExclusive TurnsTracked ResultsAreRetired HeldKVIsOwned
\* Without work the driver may be down for good.
CHECK_DEADLOCK FALSE
