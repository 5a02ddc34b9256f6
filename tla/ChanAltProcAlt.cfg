SPECIFICATION FairSpec
CONSTANTS
  N = 2
  Style = "procalt"
PROPERTY AltCompletes
CHECK_DEADLOCK FALSE
