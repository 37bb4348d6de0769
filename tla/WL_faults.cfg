SPECIFICATION HSpec
CONSTANTS
  WriteSize = 4
  LogicalSize = 12
  BackingSize = 24
  OptLimit = 4
  SectorSize = 20
  BeyondWord <- ErasedBeyond
  Requests <- MixedRequests
  MaxFaults = 2
  MaxCrashes = 1
INVARIANTS RecoveredIsDurable
