\* Every command that scans documented parameters, each parameter missing,
\* given as 0x12c or as TRUE; both byte orders, both sizes of long, stack
\* garbage 0 or 0xFF.
CONSTANTS
  Null = Null
  Endians = {"little", "big"}
  LongSizes = {4, 8}
  Garbage = {0, 255}
  Lines <- MC_ArgLines
  Features = {"SMDIO", "IND", "LEDTOP", "TOPINT", "GMAC", "MSECDBG"}
  InitResults = {0}
  OpenCanFail = FALSE
  Program = "gpy2xx_cli"
  DeviceByte = 7
  GetCanFail = TRUE
SPECIFICATION Spec
INVARIANT ArgsFromLine
CHECK_DEADLOCK FALSE
