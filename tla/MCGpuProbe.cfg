SPECIFICATION FairSpec
CONSTANTS
  Gpus <- MCGpus
  Listings <- MCListings
  NoVram = NoVram
  Unreadable = Unreadable
  PollRounds = 2
  PipeLines = 3
INVARIANTS
  TypeOK
  NoChildLeftBehind
  VramIsWhole
PROPERTY ReturnsUnlessWedged
CHECK_DEADLOCK FALSE
