SPECIFICATION Spec
CONSTANTS
  Second = 2
  Gift <- SmallGift
  InitialStores <- SomeStores
  LateTouches = TRUE
  MaxTouches = 2
  MaxMilliseconds = 3
  MaxScore = 2
  MaxCounter = 1
  MaxReports = 0
  MaxUnsaved = 0
INVARIANTS
  OneTimer
  HitsAreReal
  CheckerInStep
  ViewsFollowTimer
  NoOverdraft
  CountersMirrored
  BoardIsEarned
PROPERTIES
  StreakIsRecorded
