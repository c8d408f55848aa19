CONSTANTS
  Caller = {a1}
  DvbChannel = {1, 2}
  MaxCommands = 1
  MaxSwitches = 2
SPECIFICATION DvbFairSpec
PROPERTY EpgFlagServed
CHECK_DEADLOCK FALSE
