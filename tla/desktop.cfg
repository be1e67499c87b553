CONSTANTS
  MaxStarts = 2
  MaxEvents = 3
  MaxOthers = 1
SPECIFICATION FairSpec
CHECK_DEADLOCK FALSE
INVARIANT AliveIsOwned
PROPERTIES ShutdownEnds StoppingResolves RefreshIsAnswered
