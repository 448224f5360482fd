\* One line of every command form, with no allocation, file or TA
\* failure: only what the parsers and printers do themselves.
CONSTANTS
  Lines <- MC_Commands
  MaxLines = 1
  EnvCanFail = FALSE
  TeeCanFail = FALSE
  InitCanFail = FALSE
  ReadFaults = {"none"}
SPECIFICATION Spec
INVARIANT PrinterReadsOwnBuffers
CHECK_DEADLOCK FALSE
