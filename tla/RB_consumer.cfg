SPECIFICATION Spec
CONSTANTS
  QueueSize = 4
  RetryCount = 30
  FifoSize = 4
  AcksLost = FALSE
  EarlyTimer = FALSE
  MaxReports = 3
PROPERTY ConsumerInOrder
