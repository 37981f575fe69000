SPECIFICATION FairSpec
CONSTANTS
  Second = 3
  Gift <- SmallGift
  InitialStores <- OneStore
  LateTouches = FALSE
  MaxTouches = 2
  MaxMilliseconds = 6
  MaxScore = 1
  MaxCounter = 1
  MaxReports = 0
  MaxUnsaved = 0
INVARIANTS
  TimerOnlyInRound
  LapsMatchClock
PROPERTY
  TargetIsReached
