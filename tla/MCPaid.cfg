SPECIFICATION Spec
CONSTANTS
  p1 = p1  p2 = p2  w1 = w1  w2 = w2  r1 = r1  o1 = o1  k1 = k1  None = None
  Prepared = {p1}
  Calls = {w1}
  Recoverers = {r1}
  Operators = {o1}
  Keys = {k1}
  Kind <- OneQuote
  KeyOf <- OneKey
  Created <- OneCreated
  ScanLimit = 1
  Crashable = {w1, r1}
INVARIANTS
  TypeOK
  ReleasedNeverInvoked
  CaptureIsEvidenced
  LedgerMatchesRail
  UncertainKeepsHold
  Consistent
PROPERTIES
  DecisionsFollowTable
CHECK_DEADLOCK FALSE
