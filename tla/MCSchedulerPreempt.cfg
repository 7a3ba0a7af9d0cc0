SPECIFICATION Spec
CONSTANTS
  NumSlots = 2
  Req = {r1, r2, r3}
  p1 = p1
  m1 = m1
  m2 = m2
  Prefix = {p1}
  Model = {m1, m2}
  NoHint = NoHint
  NoSlot = NoSlot
  NoResident = NoResident
  Hints <- MCHints
  Patient = {}
  Flaky = {}
PROPERTY NeverPreempted
CHECK_DEADLOCK FALSE
