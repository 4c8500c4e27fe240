CONSTANTS
  d1 = d1
  d2 = d2
  d3 = d3
  NoSector = NoSector
  Deals <- MCDeals
  DealSize <- MCDealSize
  Cap = 4
  MaxSectors = 3
  MaxDeals = 2
  MaxWaitDealsSectors = 0
  MaxSealingSectorsForDeals = 0
  WriteMayFail = TRUE
  ConfigMayFail = FALSE
  EarlyExpiry = FALSE
  UserStarts = FALSE
  Resubmitted <- MCNoDeals
SPECIFICATION Spec
PROPERTY EveryCallAnswered
