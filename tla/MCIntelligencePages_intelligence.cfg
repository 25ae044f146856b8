SPECIFICATION Spec
CONSTANTS
  Pages = {"history", "account", "privacy", "panel"}
  MaxPending = 2
  MaxRetries = 1
  MaxOpens = 2
  MaxSessions = 2
  MaxExportPages = 2
  MaxLate = 1
CHECK_DEADLOCK FALSE
INVARIANTS
  OneConnection
  BusyIsWaiting
  NothingOfEarlierSessions
PROPERTIES
  SessionGoesForward
  ExportIsOwn
