SPECIFICATION Spec
CONSTANTS
  Works = {w1, w2}
  NoWork = NoWork
  Sessions = {s1, s2}
  NoSession = NoSession
  Credentials = {k1}
  NoCredential = NoCredential
  MaxAttempts = 2
  MaxWire = 2
  MayExpire = FALSE
  MayDispose = FALSE
  MaxHistory = 1
  MaxOffset = 1
CHECK_DEADLOCK FALSE
PROPERTY
  NewSessionGoesThrough
