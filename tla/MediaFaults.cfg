\* Two requests in flight, three records, any two faults.
CONSTANTS
  None = None
  Slot = {s1, s2}
  Id = {i1, i2, i3}
  Faults = {"disconnect", "statement", "file", "crash"}
  MaxFaults = 2
SPECIFICATION FairSpec
\* The table may be full when an upload comes.
CHECK_DEADLOCK FALSE
INVARIANTS TypeOK LinkMeansFile
PROPERTIES GetsItsName
