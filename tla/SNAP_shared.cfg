SPECIFICATION Spec
CONSTANTS
  kA = kA
  kD = kD
  kW = kW
  kS = kS
  NPairs = 2
  Codes = {kA, kD, kW, kS}
  Modifiers = {}
  Configs <- SharedKeyConfigs
  SetWhileHeld = FALSE
INVARIANT ActivePairIsDown
