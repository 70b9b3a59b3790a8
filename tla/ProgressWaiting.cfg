\* A recipient who waits for each answer before he sends the next request, and
\* does not give up; two faults.
CONSTANTS
  None = None
  Norm <- MCNorm
  User = {ann}
  Quest = {q1}
  Slot = {s1, s2}
  Answer <- MCAnswer
  StepMaps <- MCSolvableMaps
  Content = {gift, text}
  Unwritable = {text}
  Overlap = FALSE
  MaxFaults = 2
SPECIFICATION FairSpec
INVARIANT RepliesStored
PROPERTIES RefinesRun Finishes GetsRewards
