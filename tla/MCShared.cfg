SPECIFICATION Spec
CONSTANTS
  p1 = p1  p2 = p2  w1 = w1  w2 = w2  r1 = r1  o1 = o1  k1 = k1  None = None
  Prepared = {p1, p2}
  Calls = {w1, w2}
  Recoverers = {r1}
  Operators = {o1}
  Keys = {k1}
  Kind <- TwoFree
  KeyOf <- SharedKey
  Created <- InOrder
  ScanLimit = 1
  Crashable = {w1}
INVARIANTS
  AtMostOneInvocation
  InvokedKeyStaysBound
CHECK_DEADLOCK FALSE
