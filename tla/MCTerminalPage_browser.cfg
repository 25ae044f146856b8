SPECIFICATION Spec
CONSTANTS
  Works = {w1, w2}
  NoWork = NoWork
  Sessions = {s1, s2}
  NoSession = NoSession
  Credentials = {k1, k2}
  NoCredential = NoCredential
  MaxAttempts = 3
  MaxWire = 2
  MayExpire = TRUE
  MayDispose = TRUE
  MaxHistory = 1
  MaxOffset = 1
CHECK_DEADLOCK FALSE
SYMMETRY Interchangeable
INVARIANTS
  TypeOK
  AttemptIsCurrent
  ConnectedIsLive
  NoOrphanSocket
  UnwatchedIsQuiet
  
  CredentialIsStored
PROPERTIES
  LocatorKept
