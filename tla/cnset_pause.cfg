SPECIFICATION Spec
CONSTANTS
  NONE = NONE
  ServiceDefaultArgs = "args"
  Pods = {"p1", "p2"}
  MaxEdits = 3
  MaxFaults = 0
  Scenarios = {{"CNSet", "pause", "image", "grow"}}
PROPERTY PausedStays
CHECK_DEADLOCK FALSE
