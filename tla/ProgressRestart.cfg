\* One recipient, two requests in flight, nothing fails.
CONSTANTS
  None = None
  Norm <- MCNorm
  User = {ann}
  Quest = {q1}
  Slot = {s1, s2}
  Answer <- MCAnswer
  StepMaps <- MCSolvableMaps
  Content = {gift}
  Unwritable = {}
  Overlap = TRUE
  MaxFaults = 0
SYMMETRY Symmetry
SPECIFICATION Spec
PROPERTIES FinishedIsFinal
