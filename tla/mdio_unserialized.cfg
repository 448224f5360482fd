CONSTANTS
  p1 = p1
  p2 = p2
  None = None
  Procs <- MC_Procs2
  Devs = {1}
  Words = {0, 1}
  PlainIds = {}
  MaxCalls = 2
  MaxFaults = 0
  QueryCanFail = FALSE
  MaxReinits = 0
  InitModes = {"C22"}
  Serialized = FALSE
SPECIFICATION Spec
INVARIANT CallTouchesOnlyTarget
CHECK_DEADLOCK FALSE
