\* Seven options fill the option array with no terminator.
CONSTANTS
  Commands = {"addmeter"}
  Counts = {0}
  Tokens <- MC_Seven
  ArgvLens <- MC_SevenLen
  CallocCanFail = FALSE
  IoctlResults = {0, 17}
SPECIFICATION Spec
INVARIANT OptionsInBounds
CHECK_DEADLOCK FALSE
