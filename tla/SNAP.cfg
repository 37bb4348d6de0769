SPECIFICATION Spec
CONSTANTS
  kA = kA
  kD = kD
  kW = kW
  kS = kS
  NPairs = 2
  Codes = {kA, kD, kW, kS}
  Modifiers = {}
  Configs <- DisjointConfigs
  SetWhileHeld = FALSE
INVARIANTS TypeOK ReportAsConfigured
