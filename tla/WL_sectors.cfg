SPECIFICATION HSpec
CONSTANTS
  WriteSize = 8
  LogicalSize = 48
  BackingSize = 96
  OptLimit = 4
  SectorSize = 32
  BeyondWord <- ErasedBeyond
  Requests <- LongRequests
  MaxFaults = 0
  MaxCrashes = 1
INVARIANT RestartReproducesCache
