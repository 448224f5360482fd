\* Two lines of every command form, every environment failure except a
\* leaking read_file, failed TA calls and a failed session set-up.
CONSTANTS
  Lines <- MC_Commands
  MaxLines = 2
  EnvCanFail = TRUE
  TeeCanFail = TRUE
  InitCanFail = TRUE
  ReadFaults = {"none"}
SPECIFICATION Spec
INVARIANT TypeOK
INVARIANT HeapSafe
CHECK_DEADLOCK FALSE
