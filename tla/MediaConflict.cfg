\* Two uploads, nothing fails.
CONSTANTS
  None = None
  Slot = {s1, s2}
  Id = {i1, i2}
  Faults = {}
  MaxFaults = 0
SPECIFICATION Spec
CHECK_DEADLOCK FALSE
PROPERTIES NoConflict
