SPECIFICATION Spec
CONSTANTS
  Key = {"u", "l", "space", "enter", "backspace", "kp_enter", "ctrl_l", "ctrl_r", "alt_r"}
  bufsize = 2
  MAX_PATH_LEN = 6
  MAX_ARG_NR = 2
INVARIANTS
  NoStuckModifier
  LineAsTyped
  ArgsAreWords
CHECK_DEADLOCK FALSE
