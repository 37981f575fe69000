SPECIFICATION AppSpec
CONSTANTS
  Second = 2
  Gift <- SmallGift
  InitialStores <- SomeStores
  LateTouches = TRUE
  MaxTouches = 2
  MaxMilliseconds = 2
  MaxScore = 1
  MaxCounter = 2
  MaxReports = 0
  MaxUnsaved = 1
  Price = 2
  Catalog <- TwoPowerUps
  NoTier = NoTier
  MaxPowerUps = 2
  PrepareFirst = FALSE
  MaxIncome = 6
INVARIANT
  ShopMirrorsStore
PROPERTIES
  KeepsOneWallet
  ShopKeepsItsPart
