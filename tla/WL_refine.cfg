SPECIFICATION HSpec
CONSTANTS
  WriteSize = 8
  LogicalSize = 16
  BackingSize = 48
  OptLimit = 4
  SectorSize = 24
  BeyondWord <- ErasedBeyond
  Requests <- LongRequests
  MaxFaults = 0
  MaxCrashes = 2
PROPERTY ImplementsEeprom
