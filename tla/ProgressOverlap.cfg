\* One recipient, three of his requests in flight at a time, one fault.
CONSTANTS
  None = None
  Norm <- MCNorm
  User = {ann}
  Quest = {q1}
  Slot = {s1, s2, s3}
  Answer <- MCAnswer
  StepMaps <- MCStepMaps
  Content = {gift}
  Unwritable = {}
  Overlap = TRUE
  MaxFaults = 1
SYMMETRY Symmetry
SPECIFICATION Spec
INVARIANTS TypeOK NoSkip RepliesEarned NoNilHead
