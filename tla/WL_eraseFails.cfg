SPECIFICATION HSpec
CONSTANTS
  WriteSize = 8
  LogicalSize = 16
  BackingSize = 32
  OptLimit = 4
  SectorSize = 24
  BeyondWord <- ErasedBeyond
  Requests <- LongRequests
  MaxFaults = 1
  MaxCrashes = 0
INVARIANT AppendInBounds
