SPECIFICATION Spec
CONSTANTS
  kA = kA
  kB = kB
  kC = kC
  kD = kD
  NoKey = NoKey
  Keys = {kA, kB, kC}
  Layers = {0, 1}
  Keymap <- MixedKeymap
  TappingTerm = 2
  QuickTapTerm = 1
  BufferSize = 4
  MaxCount = 2
  MaxLate = 0
  Permissive = {kA}
  HoldOnOther = {kB}
INVARIANTS TypeOK NothingStuck
PROPERTY Resolves
