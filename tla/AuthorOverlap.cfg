\* An owner and a stranger, two requests in flight on one quest, one fault.
CONSTANTS
  None = None
  Norm <- MCNorm
  User = {ann, bob}
  Quest = {q1}
  Answer = {rome}
  StepMaps <- MCStepMaps
  Content = {gift, text}
  Unwritable = {text}
  Slot = {s1, s2}
  Overlap = TRUE
  MaxFaults = 1
  Body <- MCBody
  Mailing = TRUE
SYMMETRY Symmetry
SPECIFICATION Spec
INVARIANTS TypeOK NoOrphans InviteOnce StatusTells
PROPERTIES OnlyOwner SentStays
