SPECIFICATION PurseSpec
CONSTANTS
  Price = 5
  Catalog <- MixedCatalog
  NoTier = NoTier
  OpeningStores <- SomePurses
  MaxPowerUps = 3
  MaxUnsaved = 3
  Cost = 2
  Gift <- SmallGift
  Openings <- SomeAccounts
INVARIANTS
  CopiesInStep
  NothingForFree
  NothingMinted
CHECK_DEADLOCK FALSE
