SPECIFICATION FairSpec
CONSTANTS
  c1 = c1
  c2 = c2
  k1 = k1
  k2 = k2
  d1 = d1
  d2 = d2
  Connections = {c1}
  Sessions = {s1}
  Credentials = {k1}
  CredentialOf <- AloneCredential
  DeviceOf <- AloneDevice
  Revocable = {k1}
  Expirable = {}
  MayStop = FALSE
  Inputs <- AloneInputs
  Watched = {}
  NoConnection = NoConnection
  NoSession = NoSession
  NoCloser = NoCloser
CHECK_DEADLOCK FALSE
PROPERTIES
  RevocationCloses
