CONSTANTS
  p1 = p1
  p2 = p2
  None = None
  Procs <- MC_Procs1
  Devs = {1}
  Words = {0, 1}
  PlainIds = {}
  MaxCalls = 2
  MaxFaults = 1
  QueryCanFail = TRUE
  MaxReinits = 0
  InitModes = {"C45"}
  Serialized = TRUE
SPECIFICATION Spec
INVARIANT CallTouchesOnlyTarget
CHECK_DEADLOCK FALSE
