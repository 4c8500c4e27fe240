CONSTANTS
  d1 = d1
  d2 = d2
  d3 = d3
  NoSector = NoSector
  Deals <- MCDeals
  DealSize <- MCDealSize
  Cap = 4
  MaxSectors = 3
  MaxDeals = 3
  MaxWaitDealsSectors = 1
  MaxSealingSectorsForDeals = 2
  WriteMayFail = TRUE
  ConfigMayFail = TRUE
  UserStarts = TRUE
  Resubmitted <- MCResubmitted
  EarlyExpiry = TRUE
SPECIFICATION Spec
SYMMETRY MCSymmetry
INVARIANTS
  TypeOK
  SectorWithinCapacity
  DealInOnePlace
PROPERTY
  ImplementsDealPlacement
