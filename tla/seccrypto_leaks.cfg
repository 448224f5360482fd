\* One line of a command that leaks: a verify, an AES key load, a wrap
\* whose TA call may fail, a wrap that names its key twice; read_file may
\* fail in fread.
CONSTANTS
  Lines <- MC_Leaks
  MaxLines = 1
  EnvCanFail = FALSE
  TeeCanFail = TRUE
  InitCanFail = FALSE
  ReadFaults = {"leak"}
SPECIFICATION Spec
INVARIANT NoLeakAtPrompt
CHECK_DEADLOCK FALSE
