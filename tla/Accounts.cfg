CONSTANTS
  None = None
  Empty = Empty
  s1 = s1
  s2 = s2
  e1 = e1
  e2 = e2
  n1 = n1
  n2 = n2
  p1 = p1
  p2 = p2
  Slot <- MCSlot
  Id = {1, 2}
  Email = {e1, e2}
  Name = {n1, n2}
  Password = {p1, p2}
  Body <- MCBody
  MaxFaults = 1
SPECIFICATION Spec
SYMMETRY MCSymmetry
INVARIANTS TypeOK ChangesStand PasswordDecides
PROPERTIES EmailKept
