SPECIFICATION Spec
CONSTANTS
  c1 = c1  c2 = c2  p1 = p1  p2 = p2  fetch = fetch  post = post  ask = ask  None = None
  Coordinators = {c1, c2}
  Proposals = {p1, p2}
  Parent <- Successor
  Order <- AskFetchPost
  Requires <- PostNeedsFetch
  Replaced = {fetch}
  ReadOnly = {fetch}
  Delegated = {ask}
  MaxAttempts = 5
  RetryReserve = 1
  Crashable = {c1, c2}
SYMMETRY Interchangeable
INVARIANTS
  TypeOK
  ConsequentialOnce
  AllowanceRespected
  OneCoordinator
PROPERTIES
  CompletedStays
CHECK_DEADLOCK FALSE
