\* Six options with one given twice and -p missing.
CONSTANTS
  Commands = {"addmeter"}
  Counts = {0}
  Tokens <- MC_Duplicate
  ArgvLens <- MC_Six
  CallocCanFail = FALSE
  IoctlResults = {0, 17}
SPECIFICATION Spec
INVARIANT SentRequestComplete
CHECK_DEADLOCK FALSE
