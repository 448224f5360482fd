\* Two verify lines: one with every option, one with only -a.
CONSTANTS
  Lines <- MC_Repeat
  MaxLines = 2
  EnvCanFail = FALSE
  TeeCanFail = FALSE
  InitCanFail = FALSE
  ReadFaults = {}
SPECIFICATION Spec
INVARIANT CommandUsesOwnLine
CHECK_DEADLOCK FALSE
