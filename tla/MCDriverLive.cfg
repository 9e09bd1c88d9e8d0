\* Deferred admissions, failing steps, retries and a stop that may time out: is every turn
\* answered, but for the two situations TurnsAnswered names?
CONSTANTS
  t1 = t1
  t2 = t2
  t3 = t3
  t4 = t4
  Turns = {t1, t2, t3, t4}
  NoTurn = NoTurn
  Parent <- TwoContinuations
  MaxSteps = 1
  MaxFree = 1
  CpuOffload = TRUE
  MaxSessions = 2
  Calls = {}
  MaxNumSeqs = 2
  MaxStops = 1
  Operations = {"sleep"}
  StepErrors = {"pool", "error"}
  AdmitMayFail = FALSE
  UpdateMayFail = FALSE
  StopMayTimeOut = TRUE
  CallMayTimeOut = FALSE
  MayCancel = FALSE
SPECIFICATION FairSpec
PROPERTIES TurnsAnswered
\* Without work the driver may be down for good.
CHECK_DEADLOCK FALSE
