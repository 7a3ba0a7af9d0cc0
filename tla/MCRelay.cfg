SPECIFICATION FairSpec
CONSTANTS
  MaxChunks = 5
  Capacity = 2
INVARIANTS
  TypeOK
  CompleteMeansWhole
  GuardOutlivesUpstream
  FreedBeforeEnd
PROPERTY SlotIsReleased
CHECK_DEADLOCK FALSE
