\* Two serialised callers, two calls each, Clause-45 ids and plain
\* Clause-22 ids on a Clause-22 bus,
\* MMD 1, either initial bus clause, one re-initialisation between
\* calls, one transfer error; also the refinement of MdioRegisterFile.
CONSTANTS
  p1 = p1
  p2 = p2
  None = None
  Procs <- MC_Procs2
  Devs = {1}
  Words = {0, 1}
  PlainIds = {0}
  MaxCalls = 2
  MaxFaults = 1
  QueryCanFail = FALSE
  MaxReinits = 1
  InitModes = {"C22", "C45"}
  Serialized = TRUE
SPECIFICATION Spec
INVARIANT TypeOK
INVARIANT CallTouchesOnlyTarget
PROPERTY ImplementsRegisterFile
CHECK_DEADLOCK FALSE
