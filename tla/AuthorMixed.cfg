\* Two updates overlap, of a quest whose create was answered.
CONSTANTS
  None = None
  Norm <- MCNorm
  User = {ann, bob}
  Quest = {q1}
  Answer = {rome}
  StepMaps <- MCStepMaps
  Content = {gift, text}
  Unwritable = {text}
  Slot = {s1, s2}
  Overlap = TRUE
  MaxFaults = 0
  Body <- MCBody
  Mailing = TRUE
SYMMETRY Symmetry
SPECIFICATION CreatedSpec
INVARIANTS WholeSteps
