SPECIFICATION BrokerSpec
CONSTANTS
  NumSlots = 1
  Req = {r1, r2, r3}
  p1 = p1
  m1 = m1
  Prefix = {p1}
  Model = {m1, NoModel, EmptyModel}
  NoModel = NoModel
  EmptyModel = EmptyModel
  NoHint = NoHint
  NoSlot = NoSlot
  NoResident = NoResident
  NoKV = NoKV
  Hints <- MCHints
  Patient = {}
  Flaky = {r1, r2, r3}
  MaxRestarts = 1
SYMMETRY MCSymmetry
INVARIANT NeverOnForeignKV
CHECK_DEADLOCK FALSE
