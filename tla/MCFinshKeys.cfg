CONSTANTS
  NUL = NUL  Command <- MCCommand  FINSH_ARG_MAX = 2
  Char <- MCChar  FINSH_CMD_SIZE = 6  FINSH_HISTORY_LINES = 2
  MaxPressed = 9  GapsInKeys = TRUE
SPECIFICATION Spec
INVARIANT KeysNotTyped
