\* A user who keeps editing her quest with one client and walks through it with
\* another, one request in flight on each; one fault.
CONSTANTS
  None = None
  Norm <- MCNorm
  User = {ann}
  Quest = {q1}
  Answer = {rome, oslo}
  StepMaps <- MCStepMaps
  Content = {gift}
  Unwritable = {}
  OwnerSlot = {o1}
  PlayerSlot = {p1}
  Overlap = FALSE
  MaxFaults = 1
  Body <- MCBody
  Mailing = TRUE
SPECIFICATION FairSpec
INVARIANTS FinishedAtAnEnd DoneAsAnswered
PROPERTIES NeverBack Informed SentWithSteps RefinesRows
