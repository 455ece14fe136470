SPECIFICATION FairSpec
CONSTANTS
  p1 = p1  p2 = p2  w1 = w1  w2 = w2  r1 = r1  o1 = o1  k1 = k1  None = None
  Prepared = {p1}
  Calls = {w1}
  Recoverers = {r1}
  Operators = {}
  Keys = {k1}
  Kind <- OneFixed
  KeyOf <- OneKey
  Created <- OneCreated
  ScanLimit = 1
  Crashable = {w1}
PROPERTIES
  OrphanClaimCancelled
  InvocationIsResolved
  ReleasedKeyFreed
CHECK_DEADLOCK FALSE
