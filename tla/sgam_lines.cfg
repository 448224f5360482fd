\* Command lines of up to six getopt results for every command word:
\* one valid token per required addmeter option, a group, a negative
\* CIR, a rejected DSCP value, an over-long name, a help request and a
\* missing argument; calloc may fail, GET_COUNT reports 0 or 2 entries.
CONSTANTS
  Commands <- MC_AllCommands
  Tokens <- MC_Mixed
  Counts = {0, 2}
  ArgvLens <- MC_Lines
  CallocCanFail = TRUE
  IoctlResults = {0, 17}
SPECIFICATION Spec
INVARIANT TypeOK
INVARIANT MemorySafe
INVARIANT SentOnlyIfAllAccepted
INVARIANT ZeroExitOnlyIfDone
CHECK_DEADLOCK FALSE
