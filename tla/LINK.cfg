SPECIFICATION Spec
CONSTANTS
  BtHosts = {1}
  QueueSize = 4
INVARIANTS TypeOK LinkAgrees
PROPERTY Recovers
