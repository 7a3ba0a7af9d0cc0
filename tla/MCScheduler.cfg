SPECIFICATION FairSpec
CONSTANTS
  NumSlots = 2
  Req = {r1, r2, r3}
  p1 = p1
  m1 = m1
  m2 = m2
  Prefix = {p1}
  Model = {m1, m2}
  NoHint = NoHint
  NoSlot = NoSlot
  NoResident = NoResident
  Hints <- MCHints
  Patient = {r1}
  Flaky = {r2, r3}
INVARIANTS
  TypeOK
  MutualExclusion
  GuardedSlotsStayBusy
  NoLeakedSlot
  SpecificWaiterCovered
  GlobalWaiterCovered
  FreeSlotHasNoQueue
PROPERTIES
  ImplementsSlotPool
  SpecificWaiterServed
  WaiterServedOrSignalLost
CHECK_DEADLOCK FALSE
