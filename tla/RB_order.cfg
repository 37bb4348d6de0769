SPECIFICATION Spec
CONSTANTS
  QueueSize = 3
  RetryCount = 2
  FifoSize = 2
  AcksLost = TRUE
  EarlyTimer = TRUE
  MaxReports = 3
INVARIANTS TypeOK BoundedRetries NoReportLost
PROPERTIES KeyboardInOrder Drains
