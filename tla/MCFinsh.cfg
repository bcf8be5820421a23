CONSTANTS
  NUL = NUL  Command <- MCCommand  FINSH_ARG_MAX = 2
  Char <- MCChar  FINSH_CMD_SIZE = 5  FINSH_HISTORY_LINES = 2
  MaxPressed = 8  GapsInKeys = FALSE
SPECIFICATION Spec
INVARIANTS  ScreenShows
 
