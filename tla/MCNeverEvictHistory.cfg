SPECIFICATION HSpec
CONSTANTS
  b1 = b1
  b2 = b2
  b3 = b3
  b4 = b4
  h1 = h1
  h2 = h2
  h3 = h3
  r1 = r1
  r2 = r2
  Blocks <- MCBlocks
  Hashes <- MCHashes
  Requests <- MCRequests
  MarkedPrompts <- MCMarkedPrompts
  NoHash = NoHash
  NoBlock = NoBlock
  FracNum = 1
  FracDen = 2
SYMMETRY MCSymmetry
INVARIANTS
  TypeOK
  PoolPartition
  ReservationSound
  CapRespected
  ClaimedWhenFreed
  FittingPromptsStayCached
PROPERTIES
  ReservedStaysResident
  ResetNeedsOnlyIdle
  ImplementsContract
