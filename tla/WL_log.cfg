SPECIFICATION HSpec
CONSTANTS
  WriteSize = 2
  LogicalSize = 12
  BackingSize = 36
  OptLimit = 4
  SectorSize = 20
  BeyondWord <- UsedBeyond
  Requests <- MixedRequests
  MaxFaults = 0
  MaxCrashes = 1
INVARIANTS TypeOK RestartReproducesCache AppendInBounds UnlockedWhenWriting
PROPERTY CallsReturn
