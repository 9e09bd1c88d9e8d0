\* A finish_session call finds no driver; a turn starts one before the call is through.  Nothing
\* stops the driver here.
CONSTANTS
  t1 = t1
  t2 = t2
  t3 = t3
  t4 = t4
  Turns = {t1, t2}
  NoTurn = NoTurn
  Parent <- OneContinuation
  MaxSteps = 1
  MaxFree = 1
  CpuOffload = FALSE
  MaxSessions = 1
  Calls = {w1}
  MaxNumSeqs = 2
  MaxStops = 0
  Operations = {}
  StepErrors = {}
  AdmitMayFail = FALSE
  UpdateMayFail = FALSE
  StopMayTimeOut = FALSE
  CallMayTimeOut = FALSE
  MayCancel = FALSE
SPECIFICATION Spec
INVARIANTS EngineOwnedByOne
\* Without work the driver may be down for good.
CHECK_DEADLOCK FALSE
