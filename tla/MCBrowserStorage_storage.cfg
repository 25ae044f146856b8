SPECIFICATION Spec
CONSTANTS
  k1 = k1
  k2 = k2
  s1 = s1
  s2 = s2
  s3 = s3
  t1 = t1
  t2 = t2
  i1 = i1
  i2 = i2
  Tabs = {t1, t2}
  NoTab = NoTab
  Credentials = {k1, k2}
  Sessions = {s1, s2, s3}
  HostOf <- Hosts
  OwnerOf <- Owners
  Instances = {i1, i2}
  NoInstance = NoInstance
  Env <- Deployed
  DefaultMode = "private"
  NoMode = "none"
  Page <- Origin
  Saved <- Left
  MaxLifetime = 1
  Limit = 1
  Horizon = 1
CHECK_DEADLOCK FALSE
SYMMETRY Interchangeable
INVARIANTS
  TypeOK
  OneInstance
  
  ConnectsWhereAllowed
PROPERTIES
  FreshPairingStays
