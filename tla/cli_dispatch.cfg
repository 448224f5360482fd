\* Every command word of both chains, all build switches on, init may fail.
CONSTANTS
  Null = Null
  Endians = {"little"}
  LongSizes = {8}
  Garbage = {0}
  Lines <- MC_Lines
  Features = {"SMDIO", "IND", "LEDTOP", "TOPINT", "GMAC", "MSECDBG"}
  InitResults <- MC_InitResults
  OpenCanFail = TRUE
  Program = "gpy2xx_cli"
  DeviceByte = 7
  GetCanFail = TRUE
SPECIFICATION Spec
INVARIANT NamedCommandRuns
CHECK_DEADLOCK FALSE
