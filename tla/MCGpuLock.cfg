SPECIFICATION FairSpec
CONSTANTS
  Client = {c1, c2, c3, c4}
  NoLease = NoLease
  MaxHold = 2
  Patient = {c1}
  Flaky = {c2, c3, c4}
INVARIANTS
  TypeOK
  LeaseIsExclusive
  WaiterCovered
  HolderWasGranted
PROPERTIES
  ImplementsSlotPool
  LeaseEnds
  WaiterServed
CHECK_DEADLOCK FALSE
