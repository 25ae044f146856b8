\* Two members, two concurrent transactions, leases of one second.
CONSTANTS
  m1 = m1
  m2 = m2
  t1 = t1
  t2 = t2
  Members = {m1, m2}
  Founder = m1
  Requested = {"owner", "admin", "operator"}
  Transactions = {t1, t2}
  Prerequisites = {"pairing", "entitlement"}
  Paired = m2
  MaximumLease = 1
  Horizon = 1
  Quota = 1
SPECIFICATION Spec
SYMMETRY Interchangeable
INVARIANTS OwnersCounted  
CHECK_DEADLOCK FALSE
