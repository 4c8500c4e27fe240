CONSTANTS
  WPoStProvingPeriod = 4
  MaxExtension = 14
  MaxPieces = 2
  Epochs <- MCEpochs
  PeriodStarts <- MCPeriodStarts
  DealEnds <- MCDealEnds
SPECIFICATION Spec
INVARIANTS
  TypeOK
  ExpirationFollowsDesign
  ExpirationCoversDeals
  DefaultWithinMaxExtension
