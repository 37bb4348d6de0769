SPECIFICATION Spec
CONSTANTS
  Slots = 2
  TokenMod = 4
  TimeMod = 12
  Job = {j1, j2}
  None = None
  Delays = {1, 2}
  MaxDelay = 2
  MaxGap = 2
  MaxLate = 1
INVARIANTS TypeOK TableMatches
PROPERTIES NotEarly EveryJobRuns
